---- MODULE Spec2Model ----
(***************************************************************************)
(* Model of the pasal ingestion worker: the store retry wrapper, the crawl *)
(* job queue with its claim protocol, discovery with its freshness cache,  *)
(* the operator command retry-failed, the continuous supervisor loop, the  *)
(* parser, the loader, the rate limiter of the MCP server and the          *)
(* correction worker.                                                      *)
(*                                                                         *)
(* The module holds several specifications over one set of variables.     *)
(* Each specification drives one group of variables and keeps the other   *)
(* groups at their idle values:                                            *)
(*   SpecRetry        _retry (crawler/state.py)                            *)
(*   Spec             the job queue: discover, claim, process, crash       *)
(*   LiveSpec         a filled queue with the fairness of running workers  *)
(*   SpecRetryFailed  cmd_retry_failed on arbitrary job tables             *)
(*   SpecDiscover     discover_regulations with the freshness cache        *)
(*   SpecContinuous   cmd_continuous, the supervisor loop                  *)
(*   SpecFlatten      _flatten_tree of the loader on every small forest    *)
(*   SpecLoad         _extract_and_load: one job loaded and reloaded       *)
(*   SpecReprocess    the same loads, for the fields of the job's row      *)
(*   SpecParse        parse_structure on texts of a few lines              *)
(*   SpecOcr          correct_ocr_errors applied twice                     *)
(*   SpecRateLimiter  RateLimiter of the MCP server                        *)
(*   CrashSpec        LiveSpec with reprocess_jobs and the PDF's fate      *)
(*   SpecStoreCalls   the store calls process_jobs makes for one job       *)
(*   SpecConcurrent   reprocess_jobs run by two workers at once            *)
(*   SpecRuntime      process_jobs under its runtime limit                 *)
(*   SpecDownload     the download step: local file, candidates, fallback  *)
(*   SpecBody         the markers of a body text and their flattened paths *)
(*   SpecRoman        _fix_roman_pasals on texts of a few lines            *)
(*   SpecCorrection   two correction workers and apply_revision            *)
(*   SpecBatch        one batch with its counters and its run record       *)
(*   SpecBatches      repeated batches of reprocess_jobs                   *)
(*   LiveSpecBatches  the same, with the loop that keeps running           *)
(***************************************************************************)
EXTENDS Integers, Sequences, FiniteSets, TLC

NULL == "NULL"

Min(a, b) == IF a <= b THEN a ELSE b

Range(s) == {s[i] : i \in 1..Len(s)}

Least(S) == CHOOSE x \in S : \A y \in S : x <= y

(***************************************************************************)
(* Store retry wrapper: crawler/state.py                                   *)
(***************************************************************************)
MAX_RETRIES == 3

RETRY_BACKOFF == <<1, 3, 7>>

\* What one call of fn() can do: return a value or raise an error.
FnOutcomes == {[ok |-> TRUE, v |-> "r1"], [ok |-> TRUE, v |-> "r2"],
               [ok |-> FALSE, v |-> "e1"], [ok |-> FALSE, v |-> "e2"]}

VARIABLES
    r_fn,        \* the behaviour of fn: its outcome at the 1st, 2nd, ... call
    r_state,     \* "idle" | "running" | "sleeping" | "returned" | "raised"
    r_attempt,   \* the loop variable `attempt` of _retry
    r_calls,     \* number of times fn was called
    r_waits,     \* the time.sleep(wait) calls made, in order
    r_result     \* the value returned or the error raised

rvars == <<r_fn, r_state, r_attempt, r_calls, r_waits, r_result>>

RetryIdle ==
    /\ r_fn = <<>>
    /\ r_state = "idle"
    /\ r_attempt = 0
    /\ r_calls = 0
    /\ r_waits = <<>>
    /\ r_result = NULL

\* fn is given one outcome more than MAX_RETRIES so that a call beyond the
\* bound would be visible.
RetryInit ==
    /\ r_fn \in [1..(MAX_RETRIES + 1) -> FnOutcomes]
    /\ r_state = "running"
    /\ r_attempt = 0
    /\ r_calls = 0
    /\ r_waits = <<>>
    /\ r_result = NULL

\* `if attempt == MAX_RETRIES - 1: raise` with the off-by-one slip.
IsLastAttempt_Mut(attempt) == attempt = MAX_RETRIES

\* `if attempt == MAX_RETRIES - 1: raise`
IsLastAttempt(attempt) == attempt = MAX_RETRIES - 1

\* One pass of the body of `for attempt in range(MAX_RETRIES)`: call fn;
\* return its value, or re-raise on the last attempt, or pick the wait.
RetryAttempt ==
    /\ r_state = "running"
    /\ r_attempt < MAX_RETRIES
    /\ r_calls' = r_calls + 1
    /\ LET out == r_fn[r_calls + 1] IN
       IF out.ok
       THEN /\ r_state' = "returned"
            /\ r_result' = out.v
            /\ UNCHANGED <<r_waits, r_attempt>>
       ELSE IF IsLastAttempt(r_attempt)
            THEN /\ r_state' = "raised"
                 /\ r_result' = out.v
                 /\ UNCHANGED <<r_waits, r_attempt>>
            ELSE /\ r_state' = "sleeping"
                 /\ r_waits' = Append(r_waits, RETRY_BACKOFF[r_attempt + 1])
                 /\ UNCHANGED <<r_result, r_attempt>>
    /\ UNCHANGED r_fn

\* time.sleep(wait) ends and the for loop takes its next value; when the
\* range is exhausted the function falls off its end and returns None.
RetrySleepDone ==
    /\ r_state = "sleeping"
    /\ r_attempt' = r_attempt + 1
    /\ IF r_attempt + 1 < MAX_RETRIES
       THEN r_state' = "running" /\ UNCHANGED r_result
       ELSE r_state' = "returned" /\ r_result' = "None"
    /\ UNCHANGED <<r_fn, r_calls, r_waits>>

(***************************************************************************)
(* The crawl job queue: crawler/state.py, worker/process.py,               *)
(* worker/discover.py, worker/run.py                                       *)
(***************************************************************************)
\* rows the crawl_jobs table can hold (distinct URLs)
NumJobs == 2
\* largest batch_size / p_limit a worker passes
MaxBatch == 2
\* minutes that pass in one step of the clock
TickMinutes == 15

\* "auto-recovers jobs stuck in 'crawling' for >15 min"
RECOVERY_MINUTES == 15

\* `limit(min(200, limit - reset))` in cmd_retry_failed
RETRY_BATCH == 200

Jobs == 1..NumJobs
\* Two worker processes: every claim about workers is about a pair of them.
Workers == {"w1", "w2"}

\* Ages saturate one past the recovery timeout: every older age behaves alike.
AgeSat == RECOVERY_MINUTES + 1

\* Error messages are strings, modelled as sequences of characters.
MsgDetail == <<"d", "_", "p">>
MsgDetailX == <<"d", "x", "p">>
MsgHttp == <<"h">>
Msgs == {MsgDetail, MsgDetailX, MsgHttp}

\* A NULL error_message (update_status never writes an empty text).
NoMsg == <<>>

\* A NULL last_crawled_at.
NoAge == 0 - 1

VARIABLES
    status,         \* crawl_jobs.status per row; "absent": no row for the URL yet
    age,            \* minutes since crawl_jobs.last_crawled_at of a row in 'crawling'
                    \* (NoAge otherwise: the column is read only for rows in
                    \* 'crawling', and every write of 'crawling' rewrites it)
    error_message,  \* crawl_jobs.error_message
    wpc,            \* where each worker is: "idle" | "txn" | "download" | "load"
    wbatch,         \* the rows of the claim in progress, then the claimed batch
    widx            \* position in the batch of the job being processed

qvars == <<status, age, error_message, wpc, wbatch, widx>>

VARIABLES
    f_pc,      \* retry-failed: "idle" | "loop" | "update"
    f_like,    \* args.error_like (the empty string when not given)
    f_limit,   \* `limit = args.limit or count`
    f_reset,   \* `reset`
    f_ids      \* `ids` of the batch selected and not yet updated

fvars == <<f_pc, f_like, f_limit, f_reset, f_ids>>

RetryFailedIdle ==
    /\ f_pc = "idle"
    /\ f_like = <<>>
    /\ f_limit = 0
    /\ f_reset = 0
    /\ f_ids = {}

WorkersIdle ==
    /\ wpc = [w \in Workers |-> "idle"]
    /\ wbatch = [w \in Workers |-> <<>>]
    /\ widx = [w \in Workers |-> 0]

\* The queue starts empty: no URL discovered, every worker idle.
QueueInit ==
    /\ status = [j \in Jobs |-> "absent"]
    /\ age = [j \in Jobs |-> NoAge]
    /\ error_message = [j \in Jobs |-> NoMsg]
    /\ WorkersIdle

----------------------------------------------------------------------------
\* Rows locked by a claim_jobs call that has not committed yet.
LockedBy(w) == IF wpc[w] = "txn" THEN Range(wbatch[w]) ELSE {}

Locked(j) == \E w \in Workers : j \in LockedBy(w)

\* `last_crawled_at < now() - interval '15 minutes'`
Stale(j) == age[j] # NoAge /\ age[j] > RECOVERY_MINUTES

\* A lease that never runs out.
Stuck_Mut(j) == FALSE

\* Rows in 'crawling' whose lease has run out.
Stuck(j) == status[j] = "crawling" /\ Stale(j)

\* claim_jobs(): the rows one call may take: pending, or stuck in crawling
\* (returned to the pool by the same call), skipping rows locked by another
\* call (FOR UPDATE SKIP LOCKED).
ClaimJobsRows(w) ==
    {j \in Jobs : (status[j] = "pending" \/ Stuck(j)) /\ ~Locked(j)}

\* get_pending_jobs(): the plain select of pending rows, taking no lock.
ClaimCandidates_Mut(w) == {j \in Jobs : status[j] = "pending"}

\* claim_pending_jobs(): `sb.rpc("claim_jobs", {"p_limit": limit})`.
ClaimCandidates(w) == ClaimJobsRows(w)

\* The ways to return `n` rows of S, listed in id order (jobs differ by
\* nothing but their id, so the order of the list is immaterial).
Orders(S, n) ==
    {b \in [1..n -> S] : \A a, c \in 1..n : a < c => b[a] < b[c]}

\* claim_pending_jobs(limit), the call reaching the database: the stuck rows
\* are recovered and up to `lim` rows are selected and locked.
ClaimBegin(w, lim) ==
    /\ wpc[w] = "idle"
    /\ LET rows == ClaimCandidates(w) IN
       \E b \in Orders(rows, Min(lim, Cardinality(rows))) :
          wbatch' = [wbatch EXCEPT ![w] = b]
    /\ wpc' = [wpc EXCEPT ![w] = "txn"]
    /\ UNCHANGED <<status, age, error_message, widx>>

\* The stuck rows a call returns to the pending pool.
RecoveredRows(w) == {j \in Jobs : Stuck(j) /\ ~Locked(j)}

\* The call commits: selected rows become 'crawling' with last_crawled_at =
\* now(), stuck rows not selected are left in the pending pool, the selected
\* rows are returned. process_jobs returns at once on an empty result.
ClaimCommit(w) ==
    /\ wpc[w] = "txn"
    /\ status' = [j \in Jobs |->
                    IF j \in Range(wbatch[w]) THEN "crawling"
                    ELSE IF j \in RecoveredRows(w) THEN "pending"
                    ELSE status[j]]
    /\ age' = [j \in Jobs |->
                 IF j \in Range(wbatch[w]) THEN 0
                 ELSE IF j \in RecoveredRows(w) THEN NoAge
                 ELSE age[j]]
    /\ IF wbatch[w] = <<>>
       THEN wpc' = [wpc EXCEPT ![w] = "idle"] /\ widx' = [widx EXCEPT ![w] = 0]
       ELSE wpc' = [wpc EXCEPT ![w] = "download"] /\ widx' = [widx EXCEPT ![w] = 1]
    /\ UNCHANGED <<error_message, wbatch>>

\* The call fails (every attempt of _retry raised): the transaction rolls
\* back, nothing is claimed and the error leaves process_jobs.
ClaimAbort(w) ==
    /\ wpc[w] = "txn"
    /\ wpc' = [wpc EXCEPT ![w] = "idle"]
    /\ wbatch' = [wbatch EXCEPT ![w] = <<>>]
    /\ UNCHANGED <<status, age, error_message, widx>>

----------------------------------------------------------------------------
CurrentJob(w) == wbatch[w][widx[w]]

\* `stats["processed"] += 1` and the for loop moves on; after the last job
\* process_jobs returns.
NextJob(w) ==
    IF widx[w] < Len(wbatch[w])
    THEN /\ widx' = [widx EXCEPT ![w] = widx[w] + 1]
         /\ wpc' = [wpc EXCEPT ![w] = "download"]
         /\ UNCHANGED wbatch
    ELSE /\ widx' = [widx EXCEPT ![w] = 0]
         /\ wpc' = [wpc EXCEPT ![w] = "idle"]
         /\ wbatch' = [wbatch EXCEPT ![w] = <<>>]

\* update_status(job_id, status, error): a keyed update, whatever the row's
\* current status; error_message is written only when an error is given;
\* last_crawled_at only when the new status is 'crawling'.
update_status(j, st, err) ==
    /\ status' = [status EXCEPT ![j] = st]
    /\ error_message' = IF err # NoMsg
                        THEN [error_message EXCEPT ![j] = err]
                        ELSE error_message
    /\ age' = [age EXCEPT ![j] = IF st = "crawling" THEN 0 ELSE NoAge]

\* process_jobs, step 1 of a job: the PDF is at hand (cached or downloaded)
\* and the row is updated to 'downloaded' `WHERE id = job_id`.
ProcDownloaded(w) ==
    /\ wpc[w] = "download"
    /\ ~Locked(CurrentJob(w))
    /\ update_status(CurrentJob(w), "downloaded", NoMsg)
    /\ wpc' = [wpc EXCEPT ![w] = "load"]
    /\ UNCHANGED <<wbatch, widx>>

\* process_jobs, steps 2-3 of a job: _extract_and_load succeeded and the row
\* is updated to 'loaded' `WHERE id = job_id`.
ProcLoaded(w) ==
    /\ wpc[w] = "load"
    /\ ~Locked(CurrentJob(w))
    /\ update_status(CurrentJob(w), "loaded", NoMsg)
    /\ NextJob(w)

\* process_jobs, the except branches: any error while downloading or loading
\* marks the job failed with the error text.
ProcFailed(w, msg) ==
    /\ wpc[w] \in {"download", "load"}
    /\ ~Locked(CurrentJob(w))
    /\ update_status(CurrentJob(w), "failed", msg)
    /\ NextJob(w)

\* The worker process dies (or an error leaves process_jobs): whatever it
\* held is abandoned as it is; an open claim_jobs call rolls back.
WorkerCrash(w) ==
    /\ wpc[w] # "idle"
    /\ wpc' = [wpc EXCEPT ![w] = "idle"]
    /\ wbatch' = [wbatch EXCEPT ![w] = <<>>]
    /\ widx' = [widx EXCEPT ![w] = 0]
    /\ UNCHANGED <<status, age, error_message>>

\* Time passes.
Tick ==
    /\ age' = [j \in Jobs |->
                 IF age[j] = NoAge THEN NoAge ELSE Min(age[j] + TickMinutes, AgeSat)]
    /\ age' # age
    /\ UNCHANGED <<status, error_message, wpc, wbatch, widx>>

\* upsert_job(job) with on_conflict="source_id,url": a new URL gets a row; a
\* known URL has the columns of `job` overwritten, `status` among them.
upsert_job(j, st) ==
    /\ status' = [status EXCEPT ![j] = st]
    /\ age' = [age EXCEPT ![j] = IF st = "crawling" THEN age[j] ELSE NoAge]
    /\ UNCHANGED error_message

\* discover_regulations: a listing page names URL j and the job is upserted
\* with "status": "pending".
DiscoverListed(j) ==
    /\ ~Locked(j)
    /\ upsert_job(j, "pending")
    /\ UNCHANGED <<wpc, wbatch, widx>>

----------------------------------------------------------------------------
\* SQL LIKE: `%` matches any run of characters, `_` any one character.
RECURSIVE LikeMatch(_, _)
LikeMatch(p, s) ==
    IF p = <<>> THEN s = <<>>
    ELSE IF Head(p) = "%"
         THEN LikeMatch(Tail(p), s) \/ (s # <<>> /\ LikeMatch(p, Tail(s)))
         ELSE /\ s # <<>>
              /\ (Head(p) = "_" \/ Head(p) = Head(s))
              /\ LikeMatch(Tail(p), Tail(s))

\* `x in s` for strings.
Contains(s, x) ==
    \E i \in 0..(Len(s) - Len(x)) : SubSeq(s, i + 1, i + Len(x)) = x

\* The filter with the pattern taken literally.
LikeFilter_Mut(j, like) ==
    like # <<>> => (error_message[j] # NoMsg /\ Contains(error_message[j], like))

\* `if args.error_like: query.like("error_message", f"%{args.error_like}%")`;
\* a NULL error_message matches no pattern.
LikeFilter(j, like) ==
    like # <<>> =>
        (error_message[j] # NoMsg /\ LikeMatch(<<"%">> \o like \o <<"%">>, error_message[j]))

\* `.eq("status", "failed")` plus the optional filter.
FailedRows(like) == {j \in Jobs : status[j] = "failed" /\ LikeFilter(j, like)}

\* cmd_retry_failed up to the loop: count the rows; stop when there are none
\* or on --dry-run; `limit = args.limit or count`.
RetryFailedStart(like, lim, dry) ==
    /\ f_pc = "idle"
    /\ LET count == Cardinality(FailedRows(like)) IN
       IF count = 0 \/ dry
       THEN /\ f_pc' = "idle"
            /\ UNCHANGED <<f_limit, f_reset>>
       ELSE /\ f_pc' = "loop"
            /\ f_limit' = (IF lim # 0 THEN lim ELSE count)
            /\ f_reset' = 0
    /\ f_like' = like
    /\ f_ids' = {}
    /\ UNCHANGED qvars

\* `while reset < limit`: select the next batch of failed rows; an empty
\* batch or a reached limit ends the command.
RetryFailedSelect ==
    /\ f_pc = "loop"
    /\ IF f_reset < f_limit
       THEN LET rows == FailedRows(f_like)
                n == Min(Min(RETRY_BATCH, f_limit - f_reset), Cardinality(rows))
            IN \E ids \in {S \in SUBSET rows : Cardinality(S) = n} :
                  /\ f_ids' = ids
                  /\ f_pc' = (IF ids = {} THEN "idle" ELSE "update")
       ELSE f_pc' = "idle" /\ f_ids' = {}
    /\ UNCHANGED <<f_like, f_limit, f_reset>>
    /\ UNCHANGED qvars

\* `update({"status": "pending", "error_message": None}).in_("id", ids)`.
RetryFailedUpdate ==
    /\ f_pc = "update"
    /\ \A j \in f_ids : ~Locked(j)
    /\ status' = [j \in Jobs |-> IF j \in f_ids THEN "pending" ELSE status[j]]
    /\ age' = [j \in Jobs |-> IF j \in f_ids THEN NoAge ELSE age[j]]
    /\ error_message' = [j \in Jobs |-> IF j \in f_ids THEN NoMsg ELSE error_message[j]]
    /\ f_reset' = f_reset + Cardinality(f_ids)
    /\ f_ids' = {}
    /\ f_pc' = "loop"
    /\ UNCHANGED <<f_like, f_limit>>
    /\ UNCHANGED <<wpc, wbatch, widx>>

\* The values of --error-like tried (the empty string: option not given).
LikeArgs == {<<>>, MsgDetail, MsgHttp}

(***************************************************************************)
(* Discovery with its freshness cache: worker/discover.py, crawler/state.py *)
(***************************************************************************)
\* largest --freshness-hours tried
MaxFreshHours == 2

FreshHours == 1..MaxFreshHours

\* The clock of the cache stops counting once every threshold is passed.
HourSat == MaxFreshHours + 1

\* The totals the first listing page can show; 0 stands for a page without a
\* count (_parse_total_from_page returns None).
SiteTotals == {0, 5, 25}

\* The arguments of discover_regulations for one type; maxp = 0 stands for
\* max_pages_per_type = None.
DiscArgs == [ignore : BOOLEAN, dry : BOOLEAN, fh : FreshHours, maxp : {0, 1}]

NoArgs == [ignore |-> FALSE, dry |-> FALSE, fh |-> 0, maxp |-> 0]

NoRow == <<>>

VARIABLES
    d_pc,      \* "idle" | "probe" | "pages": where the call stands
    d_args,    \* the arguments of the call in progress (or of the last one)
    d_age,     \* hours since last_discovered_at; NoAge without a progress row
    d_rec,     \* the arguments of the call that wrote last_discovered_at
    d_cached,  \* the progress row: <<total_regulations, pages_crawled, total_pages>>
    d_http,    \* HTTP requests to the listing site made by the call
    d_total,   \* `total` parsed from the first page
    d_page,    \* the next listing page to fetch
    d_done     \* `pages_done`

dvars == <<d_pc, d_args, d_age, d_rec, d_cached, d_http, d_total, d_page, d_done>>

DiscoverIdle ==
    /\ d_pc = "idle"
    /\ d_args = NoArgs
    /\ d_age = NoAge
    /\ d_rec = NoArgs
    /\ d_cached = NoRow
    /\ d_http = 0
    /\ d_total = 0
    /\ d_page = 0
    /\ d_done = 0

(***************************************************************************)
(* The continuous supervisor loop: cmd_continuous in worker/run.py         *)
(***************************************************************************)
\* iterations of `while True` followed
MaxIterations == 3

\* The options of `continuous`: --discover, --discovery-first and
\* --discover-interval.
ContArgs == [discover : BOOLEAN, discovery_first : BOOLEAN, interval : {1, 2}]

VARIABLES
    s_pc,          \* where cmd_continuous stands
    s_args,        \* its options
    s_batch_count, \* `batch_count`
    s_sleep,       \* the factor of sleep_between of the sleep in progress
    s_error,       \* the Store error that left cmd_continuous, if any
    s_iter         \* what the iteration in progress has done so far

svars == <<s_pc, s_args, s_batch_count, s_sleep, s_error, s_iter>>

\* An iteration that has done nothing yet: the calls of discover_regulations
\* (and whether with ignore_freshness), of process_jobs (each claims one
\* batch) and of reprocess_jobs, what the two returned as
\* stats["processed"] ("none" for 0, "some" otherwise), and whether the
\* except branch was entered.
NoIter == [disc |-> 0, ignore |-> FALSE, claims |-> 0, processed |-> NULL,
           reprocess |-> 0, rp |-> NULL, raised |-> FALSE]

ContinuousIdle ==
    /\ s_pc = "idle"
    /\ s_args = [discover |-> FALSE, discovery_first |-> FALSE, interval |-> 1]
    /\ s_batch_count = 0
    /\ s_sleep = 0
    /\ s_error = NULL
    /\ s_iter = NoIter

(***************************************************************************)
(* The parsed document tree and its flattening: loader/load_to_supabase.py *)
(***************************************************************************)
\* nodes of the parsed tree
MaxNodes == 3

Nodes == 1..MaxNodes

\* Up to k steps from node n towards the root; 0 is "no parent".
RECURSIVE Up(_, _, _)
Up(parent, n, k) ==
    IF n = 0 \/ k = 0 THEN n ELSE Up(parent, parent[n], k - 1)

\* The orders in which siblings can stand in a `children` list.
SiblingOrders ==
    {o \in [Nodes -> Nodes] : \A a, b \in Nodes : a # b => o[a] # o[b]}

\* The trees parse_structure can return: every node has a parent (0 for a
\* top-level node) and reaches the top; siblings are listed in the order ord.
Trees ==
    {t \in [parent : [Nodes -> 0..MaxNodes], ord : SiblingOrders] :
        \A n \in Nodes : Up(t.parent, n, MaxNodes) = 0}

NoTree == [parent |-> <<>>, ord |-> <<>>]

VARIABLES
    t_tree,    \* the tree handed to _flatten_tree
    t_flat     \* the list _flatten_tree returned; <<>> before the call

tvars == <<t_tree, t_flat>>

FlattenIdle ==
    /\ t_tree = NoTree
    /\ t_flat = <<>>

(***************************************************************************)
(* Loading a work: _extract_and_load in worker/process.py and the loader   *)
(***************************************************************************)
\* loads of the same job and PDF followed
MaxRuns == 2

VARIABLES
    l_pc,        \* where the load stands: "idle" | "work" | "clean_chunks" |
                 \* "clean_nodes" | "insert" | "chunks" | "mark"
    l_mode,      \* "process" | "reprocess": who called _extract_and_load
    l_status,    \* crawl_jobs.status of the job
    l_run,       \* the loads started so far
    l_depth,     \* the tree depth load_nodes_by_level inserts next
    l_inserted,  \* idx_to_db_id: the flat entries this load has inserted
    db_work,     \* the works row of the job's frbr_uri exists
    db_nodes,    \* document_nodes of the work: [run, idx] = entry idx of the
                 \* flat list, inserted by load number run
    db_chunks,   \* legal_chunks of the work, likewise; idx 0 is a chunk of
                 \* the full text
    l_text,      \* what extraction gives for the PDF: "short" (under 100
                 \* characters), "junk" (a website capture) or "law"
    l_error,     \* crawl_jobs.error_message; <<>> is NULL
    l_version,   \* crawl_jobs.extraction_version; NoVersion is NULL
    l_hash,      \* crawl_jobs.pdf_hash
    l_file,      \* the hash of the PDF file the load reads
    l_warn,      \* hash warnings printed by the current reprocess of the job
    l_force,     \* the reprocess was called with force
    l_quality    \* what classify_pdf_quality gives for the PDF

jvars == <<l_text, l_error, l_version, l_hash, l_file, l_warn, l_force, l_quality>>

lvars == <<l_pc, l_mode, l_status, l_run, l_depth, l_inserted,
           db_work, db_nodes, db_chunks, jvars>>

EXTRACTION_VERSION == 5

NoVersion == 0 - 1

Hashes == {"h1", "h2"}

LoadIdle ==
    /\ l_pc = "idle"
    /\ l_mode = "process"
    /\ l_status = "downloaded"
    /\ l_run = 0
    /\ l_depth = 0
    /\ l_inserted = {}
    /\ db_work = FALSE
    /\ db_nodes = {}
    /\ db_chunks = {}
    /\ l_text = "law"
    /\ l_quality = "born_digital"
    /\ l_error = <<>>
    /\ l_version = NoVersion
    /\ l_hash = "h1"
    /\ l_file = "h1"
    /\ l_warn = 0
    /\ l_force = FALSE

(***************************************************************************)
(* Parsing a law text: parser/parse_structure.py                           *)
(***************************************************************************)
\* lines of a law text
MaxLines == 3

\* A text is a sequence of lines.  "PENJ" is a line `PENJELASAN`, "UMUM" a
\* line `I. UMUM`, "PDP" a line `II. PASAL DEMI PASAL`, "PASAL" a line
\* `Pasal N`, "s" a line of seven characters of running text and "L" one of
\* thirty.
LineKinds == {"PENJ", "UMUM", "PDP", "PASAL", "s", "L"}

LineLen(k) ==
    CASE k = "PENJ" -> 10
      [] k = "UMUM" -> 7
      [] k = "PDP" -> 20
      [] k = "PASAL" -> 7
      [] k = "s" -> 7
      [] k = "L" -> 30

Texts == UNION {[1..n -> LineKinds] : n \in 1..MaxLines}

VARIABLES
    p_text,      \* the text given to parse_structure
    p_nodes      \* the nodes it returned; <<>> before the call

pvars == <<p_text, p_nodes>>

ParseIdle == p_text = <<>> /\ p_nodes = <<>>

(***************************************************************************)
(* OCR correction: parser/ocr_correct.py                                   *)
(***************************************************************************)
\* characters of a text given to correct_ocr_errors
MaxChars == 5

\* The characters of the texts: a space, the letter l, the letter O and a
\* digit.  No pattern of _OCR_PATTERNS other than the three on digits next
\* to l and O matches a text of these characters.
OcrChars == {" ", "l", "O", "2"}

OcrTexts == UNION {[1..n -> OcrChars] : n \in 1..MaxChars}

VARIABLES
    o_text,      \* the text given to the first call
    o_first,     \* correct_ocr_errors(o_text)
    o_second,    \* correct_ocr_errors(o_first)
    o_n          \* the calls made

ovars == <<o_text, o_first, o_second, o_n>>

OcrIdle == o_text = <<>> /\ o_first = <<>> /\ o_second = <<>> /\ o_n = 0

(***************************************************************************)
(* Rate limiter of the MCP server: apps/mcp-server/server.py               *)
(***************************************************************************)
\* largest max_calls of a limiter
MaxCalls == 2

\* largest window of a limiter, in seconds
MaxWindow == 2

\* the clock runs from 0 to MaxTime seconds
MaxTime == 4

VARIABLES
    rl_max,      \* self._max
    rl_window,   \* self._window
    rl_calls,    \* self._calls
    rl_now,      \* time.time()
    rl_op,       \* the last operation: "none" | "check" | "reset" | "tick"
    rl_ret,      \* what the last check() returned; 0 is None
    rl_allowed   \* the times of the checks allowed since the last reset()

rlvars == <<rl_max, rl_window, rl_calls, rl_now, rl_op, rl_ret, rl_allowed>>

RateLimiterIdle ==
    /\ rl_max = 1
    /\ rl_window = 1
    /\ rl_calls = <<>>
    /\ rl_now = 0
    /\ rl_op = "none"
    /\ rl_ret = 0
    /\ rl_allowed = <<>>

(***************************************************************************)
(* Crashed workers: the columns of crawl_jobs that reprocess_jobs reads    *)
(***************************************************************************)
VARIABLES
    x_version,   \* crawl_jobs.extraction_version of every job; NoVersion is NULL
    x_pdf        \* the job's PDF can be found, locally or in storage

xcvars == <<x_version, x_pdf>>

CrashIdle ==
    /\ x_version = [j \in Jobs |-> NoVersion]
    /\ x_pdf = [j \in Jobs |-> FALSE]

(***************************************************************************)
(* The store calls of process_jobs for one job: worker/process.py          *)
(***************************************************************************)
VARIABLES
    k_pc,        \* the step of the job: "start" | "link_run" | "fetch" |
                 \* "pdf_url" | "downloaded" | "load" | "loaded" | "except" |
                 \* "done" | "raised"
    k_run_id,    \* process_jobs was given a run_id
    k_cached,    \* the PDF is on the local disk already
    k_status,    \* crawl_jobs.status of the job
    k_cause,     \* what raised into the except branch: "none" | "store" |
                 \* "http" | "load"
    k_tries,     \* executions of the store call that raised
    k_attempt    \* attempts made by _retry inside update_status

kvars == <<k_pc, k_run_id, k_cached, k_status, k_cause, k_tries, k_attempt>>

StoreCallsIdle ==
    /\ k_pc = "start"
    /\ k_run_id = FALSE
    /\ k_cached = FALSE
    /\ k_status = "crawling"
    /\ k_cause = "none"
    /\ k_tries = 0
    /\ k_attempt = 0

(***************************************************************************)
(* Reprocess batches of several workers: reprocess_jobs, worker/process.py *)
(***************************************************************************)
VARIABLES
    cr_pc,       \* per worker, where its reprocess_jobs stands: "idle" |
                 \* "clean_chunks" | "clean_nodes" | "nodes" | "chunks" | "mark"
    cr_jobs,     \* per worker, the rows its query returned and it has not
                 \* finished, in order
    cr_status,   \* crawl_jobs.status of every job
    cr_version,  \* crawl_jobs.extraction_version of every job
    cr_nodes,    \* per job, the copies of the work's node tree in the store
    cr_chunks    \* per job, the copies of the work's chunks in the store

crvars == <<cr_pc, cr_jobs, cr_status, cr_version, cr_nodes, cr_chunks>>

ConcurrentIdle ==
    /\ cr_pc = [w \in Workers |-> "idle"]
    /\ cr_jobs = [w \in Workers |-> <<>>]
    /\ cr_status = [j \in Jobs |-> "loaded"]
    /\ cr_version = [j \in Jobs |-> EXTRACTION_VERSION]
    /\ cr_nodes = [j \in Jobs |-> 1]
    /\ cr_chunks = [j \in Jobs |-> 1]

(***************************************************************************)
(* One call of process_jobs under its runtime limit, worker/process.py     *)
(***************************************************************************)
VARIABLES
    m_pc,         \* where the for loop stands: "check" (top of the loop) |
                  \* "download" | "load" (inside the try) | "done" (returned)
    m_batch,      \* the jobs claim_pending_jobs returned, in order
    m_idx,        \* the position of the loop in m_batch
    m_status,     \* crawl_jobs.status of every job
    m_age,        \* minutes since last_crawled_at of every job, or NoAge
    m_elapsed,    \* time.time() - start_time, in minutes
    m_max,        \* max_runtime, in minutes
    m_started,    \* per job, the elapsed time at which its iteration passed
                  \* the runtime check, or NoAge when it did not
    m_stopped,    \* TRUE once the loop was left by the break
    m_recovered   \* the jobs claim_jobs took back from 'crawling'

mvars == <<m_pc, m_batch, m_idx, m_status, m_age, m_elapsed, m_max,
           m_started, m_stopped, m_recovered>>

RuntimeIdle ==
    /\ m_pc = "done" /\ m_batch = <<>> /\ m_idx = 0
    /\ m_status = [j \in Jobs |-> "pending"]
    /\ m_age = [j \in Jobs |-> NoAge]
    /\ m_elapsed = 0 /\ m_max = 0
    /\ m_started = [j \in Jobs |-> NoAge]
    /\ m_stopped = FALSE /\ m_recovered = {}

(***************************************************************************)
(* The download step of one job: process_jobs and _download_pdf,           *)
(* worker/process.py                                                       *)
(***************************************************************************)
\* The PDF URLs a job can carry.
Urls == {"u1", "u2"}

\* No file at pdf_path.
NoFile == [size |-> "none", hash |-> NULL]

\* The file at pdf_path before the job: none, or one of fewer than 1000
\* bytes ("small") or more ("ok"), with its SHA-256.
LocalFiles == {NoFile} \cup [size : {"small", "ok"}, hash : Hashes]

\* What a GET of a candidate comes to.
GetOutcomes == {"ok", "http_status", "network", "not_pdf", "too_small"}

VARIABLES
    g_pc,          \* "start" | "resolve" | "attempt" | "done"
    g_file,        \* the file at pdf_path when the job's iteration began
    g_pdf_hash,    \* job["pdf_hash"], NULL when none is stored
    g_real,        \* the PDF URL the detail page gives, NULL when it gives none
    g_stored,      \* job["pdf_url"], NULL when none is stored
    g_candidates,  \* `candidates` of _download_pdf
    g_tried,       \* the candidates requested so far, in order
    g_errors,      \* `attempt_errors`: what each recorded entry is about
    g_result,      \* NULL | "reused" | "downloaded" | "failed"
    g_resolved,    \* TRUE once _download_pdf was called
    g_written,     \* the URL whose payload was written to pdf_path, or NULL
    g_pdf_url      \* crawl_jobs.pdf_url after the step

gvars == <<g_pc, g_file, g_pdf_hash, g_real, g_stored, g_candidates, g_tried,
           g_errors, g_result, g_resolved, g_written, g_pdf_url>>

DownloadIdle ==
    /\ g_pc = "done" /\ g_file = NoFile /\ g_pdf_hash = NULL
    /\ g_real = NULL /\ g_stored = NULL
    /\ g_candidates = <<>> /\ g_tried = <<>> /\ g_errors = <<>>
    /\ g_result = NULL /\ g_resolved = FALSE /\ g_written = NULL
    /\ g_pdf_url = NULL

(***************************************************************************)
(* The body of a law: the marker loop of parse_structure with _parse_ayat, *)
(* parser/parse_structure.py, and the paths of _flatten_tree               *)
(***************************************************************************)
\* marker lines of a body text
MaxMarkers == 3

\* The numbers a marker line can carry (for an aturan, its label).
MarkerNumbers == {"1", "2"}

\* The `(N)` lines the content of a pasal can hold, in order.
AyatLines == {<<>>, <<"1">>, <<"1", "2">>, <<"1", "1">>}

\* A marker line with the content that follows it up to the next marker.
Markers ==
    [type : {"bab", "aturan", "bagian", "paragraf"}, number : MarkerNumbers, ayat : {<<>>}]
    \cup [type : {"pasal"}, number : MarkerNumbers, ayat : AyatLines]

BodyTexts == UNION {[1..n -> Markers] : n \in 1..MaxMarkers}

VARIABLES
    b_text,      \* the body text, as its markers in order
    b_nodes      \* the flattened tree parse_structure and _flatten_tree give
                 \* for it; <<>> before the call

bvars == <<b_text, b_nodes>>

BodyIdle == b_text = <<>> /\ b_nodes = <<>>

(***************************************************************************)
(* The Roman-numeral Pasal rescue: _fix_roman_pasals,                      *)
(* parser/parse_structure.py                                               *)
(***************************************************************************)
\* lines of a text given to _fix_roman_pasals
MaxRomanLines == 3

\* The lines of the texts.  "roman" is `Pasal I` .. `Pasal XV`, written
\* exactly so ("tight") or with more blanks between the two words or after
\* the numeral ("loose"); "roman_big" is `Pasal XVI`, a numeral _ROMAN_MAP
\* does not hold; "arabic" is `Pasal 1`; "amend" is a line of running text
\* with the words `Perubahan Atas`; "blank" is an empty line.
RomanLines ==
    [kind : {"roman"}, ws : {"tight", "loose"}]
    \cup [kind : {"roman_big", "text", "blank", "amend", "aturan_peralihan",
                  "aturan_tambahan"}, ws : {"tight"}]

RomanTexts == UNION {[1..n -> RomanLines] : n \in 1..MaxRomanLines}

VARIABLES
    rp_text,     \* the text given to _fix_roman_pasals, as its lines
    rp_out       \* the text it returned; <<>> before the call

rpvars == <<rp_text, rp_out>>

RomanIdle == rp_text = <<>> /\ rp_out = <<>>

(***************************************************************************)
(* The correction worker and apply_revision: agent/correction_worker.py,   *)
(* agent/apply_revision.py                                                 *)
(***************************************************************************)
\* The pending suggestions, each about a node of its own.
Suggestions == {1, 2}

\* CONFIDENCE_AUTO_APPLY_THRESHOLD, in hundredths.
CONFIDENCE_THRESHOLD == 85

\* What the verifier returns: one of its three decisions with a confidence,
\* or the decision "error" with confidence 0 when the call failed.
Verdicts ==
    [decision : {"accept", "accept_with_corrections", "reject"},
     confidence : {0, CONFIDENCE_THRESHOLD - 1, CONFIDENCE_THRESHOLD, 100}]
    \cup {[decision |-> "error", confidence |-> 0]}

NoVerdict == [decision |-> NULL, confidence |-> 0]

VARIABLES
    a_pc,         \* per worker: "idle" | "claim" | "verify" | "rpc" | "read" |
                  \* "insert" | "node" | "chunks" | "suggestion" | "status"
    a_batch,      \* per worker, the suggestions it fetched and has not done
    a_triggered,  \* per suggestion, agent_triggered_at: NULL or the worker
                  \* whose claim wrote it
    a_status,     \* per suggestion, suggestions.status
    a_verdict,    \* per suggestion, the stored agent_decision and confidence
    a_node,       \* per suggestion, document_nodes.content_text of its node:
                  \* "old" or "new"
    a_chunks,     \* per suggestion, legal_chunks.content of its node
    a_rev,        \* per suggestion, the revisions rows of its node
    a_ret,        \* per suggestion, what apply_revision returned: NULL (not
                  \* returned), "id" or "none"
    a_attempted,  \* per suggestion, the workers that ran the claim update
    a_verifiers,  \* per suggestion, the workers that went on to verify it
    a_appliers    \* per suggestion, the workers that called apply_revision

avars == <<a_pc, a_batch, a_triggered, a_status, a_verdict, a_node, a_chunks,
           a_rev, a_ret, a_attempted, a_verifiers, a_appliers>>

CorrectionIdle ==
    /\ a_pc = [w \in Workers |-> "idle"]
    /\ a_batch = [w \in Workers |-> <<>>]
    /\ a_triggered = [s \in Suggestions |-> NULL]
    /\ a_status = [s \in Suggestions |-> "approved"]
    /\ a_verdict = [s \in Suggestions |-> NoVerdict]
    /\ a_node = [s \in Suggestions |-> "old"]
    /\ a_chunks = [s \in Suggestions |-> "old"]
    /\ a_rev = [s \in Suggestions |-> 0]
    /\ a_ret = [s \in Suggestions |-> NULL]
    /\ a_attempted = [s \in Suggestions |-> {}]
    /\ a_verifiers = [s \in Suggestions |-> {}]
    /\ a_appliers = [s \in Suggestions |-> {}]

(***************************************************************************)
(* One iteration of a command that processes a batch, with its scraper run *)
(* record and the counters of the batch: worker/run.py, worker/process.py  *)
(***************************************************************************)
\* most jobs a batch can hold, and the largest batch_size
MaxBatchJobs == 3

\* `stats = {"processed": 0, "succeeded": 0, "failed": 0, "skipped": 0}`
ZeroStats == [processed |-> 0, succeeded |-> 0, failed |-> 0, skipped |-> 0]

NoStats == [processed |-> 0 - 1, succeeded |-> 0 - 1, failed |-> 0 - 1, skipped |-> 0 - 1]

\* No scraper_runs row.
NoRun == [status |-> NULL, processed |-> 0, succeeded |-> 0, failed |-> 0,
          error |-> FALSE]

VARIABLES
    n_cmd,       \* "process" | "full" | "continuous"
    n_size,      \* batch_size
    n_avail,     \* the pending jobs claim_jobs can hand out
    n_outdated,  \* the jobs the select of reprocess_jobs matches
    n_pc,        \* "create" | "discovered" | "claim" | "loop" | "update" |
                 \* "rp_select" | "rp_loop" | "except" | "done"
    n_jobs,      \* len(jobs) of the batch in progress
    n_claimed,   \* len(jobs) of the batch process_jobs claimed
    n_idx,       \* the position of the for loop in jobs
    n_stats,     \* `stats` of the function in progress
    n_counted,   \* per position of the batch, how often the function in
                 \* progress added the job to its counters
    n_ret,       \* what process_jobs returned, NoStats before
    n_rp_ret,    \* what reprocess_jobs returned, NoStats before
    n_run        \* the scraper_runs row of the iteration

nvars == <<n_cmd, n_size, n_avail, n_outdated, n_pc, n_jobs, n_claimed, n_idx, n_stats,
           n_counted, n_ret, n_rp_ret, n_run>>

BatchIdle ==
    /\ n_cmd = NULL
    /\ n_size = 0
    /\ n_avail = 0
    /\ n_outdated = 0
    /\ n_pc = "done"
    /\ n_jobs = 0
    /\ n_claimed = 0
    /\ n_idx = 0
    /\ n_stats = ZeroStats
    /\ n_counted = [j \in 1..MaxBatchJobs |-> 0]
    /\ n_ret = NoStats
    /\ n_rp_ret = NoStats
    /\ n_run = NoRun

(***************************************************************************)
(* Repeated batches of reprocess_jobs over the same jobs:                  *)
(* worker/process.py, worker/run.py                                        *)
(***************************************************************************)
\* jobs that reprocess_jobs can select
MaxReprocessJobs == 3

ReprocessJobs == 1..MaxReprocessJobs

VARIABLES
    rq_size,      \* batch_size
    rq_pdf,       \* per job, its PDF is on the local disk or in storage
    rq_outdated,  \* per job, extraction_version < EXTRACTION_VERSION
    rq_status,    \* per job, crawl_jobs.status: "loaded" | "failed"
    rq_pc,        \* "select" | "loop"
    rq_batch,     \* the jobs of the batch not yet visited
    rq_tried,     \* the jobs handed to _extract_and_load so far
    rq_skips,     \* per job, the batches that skipped it, up to MaxSkips
    rq_empty      \* a batch came back empty

rqvars == <<rq_size, rq_pdf, rq_outdated, rq_status, rq_pc, rq_batch, rq_tried,
            rq_skips, rq_empty>>

BatchesIdle ==
    /\ rq_size = 0
    /\ rq_pdf = [j \in ReprocessJobs |-> FALSE]
    /\ rq_outdated = [j \in ReprocessJobs |-> FALSE]
    /\ rq_status = [j \in ReprocessJobs |-> "loaded"]
    /\ rq_pc = "select"
    /\ rq_batch = {}
    /\ rq_tried = {}
    /\ rq_skips = [j \in ReprocessJobs |-> 0]
    /\ rq_empty = FALSE

\* The variables of the loader and the parser, and their idle values.
xvars ==
    <<tvars, lvars, pvars, ovars, rlvars, xcvars, kvars,
      crvars,
      mvars,
      gvars,
      bvars,
      rpvars,
      avars,
      nvars,
      rqvars>>

ExtIdle == FlattenIdle /\ LoadIdle /\ ParseIdle /\ OcrIdle /\ RateLimiterIdle /\ CrashIdle /\ StoreCallsIdle
    /\ ConcurrentIdle
    /\ RuntimeIdle
    /\ DownloadIdle
    /\ BodyIdle
    /\ RomanIdle
    /\ CorrectionIdle
    /\ BatchIdle
    /\ BatchesIdle

----------------------------------------------------------------------------
\* The messages the processors write in the queue specification.
ProcMsgs == {MsgHttp}

\* The job queue under the pipeline's own operations.
Init ==
    /\ QueueInit /\ RetryFailedIdle /\ RetryIdle /\ DiscoverIdle /\ ContinuousIdle
    /\ ExtIdle

vars == <<qvars, fvars, rvars, dvars, svars, xvars>>

QueueOthers == UNCHANGED <<fvars, rvars, dvars, svars, xvars>>

Next ==
    \/ \E w \in Workers, lim \in 1..MaxBatch : ClaimBegin(w, lim) /\ QueueOthers
    \/ \E w \in Workers : ClaimCommit(w) /\ QueueOthers
    \/ \E w \in Workers : ClaimAbort(w) /\ QueueOthers
    \/ \E w \in Workers : ProcDownloaded(w) /\ QueueOthers
    \/ \E w \in Workers : ProcLoaded(w) /\ QueueOthers
    \/ \E w \in Workers, msg \in ProcMsgs : ProcFailed(w, msg) /\ QueueOthers
    \/ \E w \in Workers : WorkerCrash(w) /\ QueueOthers
    \/ \E j \in Jobs : DiscoverListed(j) /\ QueueOthers
    \/ Tick /\ QueueOthers

Spec == Init /\ [][Next]_vars

----------------------------------------------------------------------------
\* The jobs a worker was handed and has not yet carried to loaded or failed.
Held(w) ==
    IF wpc[w] \in {"download", "load"}
    THEN {wbatch[w][i] : i \in widx[w]..Len(wbatch[w])}
    ELSE {}

\* The position of a status in the chain; failed is terminal.
Rank(st) ==
    CASE st = "absent" -> 0
      [] st = "pending" -> 1
      [] st = "crawling" -> 2
      [] st = "downloaded" -> 3
      [] st = "loaded" -> 4
      [] st = "failed" -> 5

\* C1: two claim_jobs calls that are in progress at the same time have
\* selected disjoint sets of rows, so no row is returned to both.
C1_ClaimDisjoint ==
    \A w1, w2 \in Workers :
        (w1 # w2 /\ wpc[w1] = "txn" /\ wpc[w2] = "txn")
            => Range(wbatch[w1]) \cap Range(wbatch[w2]) = {}

\* C1 witness: two calls overlap and each has selected a row.
C1_Witness ==
    /\ wpc["w1"] = "txn" /\ wpc["w2"] = "txn"
    /\ wbatch["w1"] # <<>> /\ wbatch["w2"] # <<>>

\* C2: a job handed to a worker is handed to no other worker until the first
\* one has written its terminal status.
C2_ExclusiveOwner ==
    \A w1, w2 \in Workers : w1 # w2 => Held(w1) \cap Held(w2) = {}

C5_ForwardOnly ==
    [][/\ \A j \in Jobs : Rank(status'[j]) >= Rank(status[j])
       /\ \A w \in Workers :
             (ProcLoaded(w) \/ \E msg \in Msgs : ProcFailed(w, msg))
                => status'[CurrentJob(w)] \in {"loaded", "failed"}]_vars

\* C6: a failed job stays failed until retry-failed resets it.
C6_FailedStays ==
    [][\A j \in Jobs :
          status[j] = "failed" => (status'[j] = "failed" \/ RetryFailedUpdate)]_vars

----------------------------------------------------------------------------
\* Workers run with --batch-size LiveBatch on a queue that discovery has
\* filled and left: the workers' steps of Next, each claim_jobs call asking
\* for LiveBatch rows.
LiveBatch == 1

LiveInit ==
    /\ status = [j \in Jobs |-> "pending"]
    /\ age = [j \in Jobs |-> NoAge]
    /\ error_message = [j \in Jobs |-> NoMsg]
    /\ WorkersIdle
    /\ RetryFailedIdle
    /\ RetryIdle
    /\ DiscoverIdle
    /\ ContinuousIdle
    /\ ExtIdle

LiveNext ==
    \/ \E w \in Workers : ClaimBegin(w, LiveBatch) /\ QueueOthers
    \/ \E w \in Workers : ClaimCommit(w) /\ QueueOthers
    \/ \E w \in Workers : ClaimAbort(w) /\ QueueOthers
    \/ \E w \in Workers : ProcDownloaded(w) /\ QueueOthers
    \/ \E w \in Workers : ProcLoaded(w) /\ QueueOthers
    \/ \E w \in Workers, msg \in ProcMsgs : ProcFailed(w, msg) /\ QueueOthers
    \/ \E w \in Workers : WorkerCrash(w) /\ QueueOthers
    \/ Tick /\ QueueOthers

\* A claim_jobs call by w that selects row j, and its commit.
ClaimBeginOf(w, j) ==
    ClaimBegin(w, LiveBatch) /\ j \in Range(wbatch'[w]) /\ QueueOthers

ClaimCommitOf(w, j) == ClaimCommit(w) /\ j \in Range(wbatch[w]) /\ QueueOthers

\* What a running worker does next with the batch it holds.
WorkerStep(w) ==
    (\/ ClaimCommit(w)
     \/ ProcDownloaded(w)
     \/ ProcLoaded(w)
     \/ \E msg \in ProcMsgs : ProcFailed(w, msg)) /\ QueueOthers

\* The queue with workers that keep running: time passes, a worker that
\* holds a batch goes on with it, and a row that can be claimed again and
\* again is not passed over for ever.
LiveSpec ==
    /\ LiveInit /\ [][LiveNext]_vars
    /\ WF_vars(Tick /\ QueueOthers)
    /\ \A w \in Workers : WF_vars(WorkerStep(w))
    /\ \A j \in Jobs : SF_vars(\E w \in Workers : ClaimBeginOf(w, j))
    /\ \A j \in Jobs : SF_vars(\E w \in Workers : ClaimCommitOf(w, j))

\* A row left in 'crawling' that no running worker holds.
Orphan(j) ==
    /\ status[j] = "crawling"
    /\ \A w \in Workers : j \notin Held(w) /\ j \notin LockedBy(w)

----------------------------------------------------------------------------
(***************************************************************************)
(* SpecRetry: one call of _retry(fn) for every behaviour of fn             *)
(***************************************************************************)
RetryOthers == UNCHANGED <<qvars, fvars, dvars, svars, xvars>>

SpecRetryInit ==
    /\ RetryInit /\ QueueInit /\ RetryFailedIdle /\ DiscoverIdle /\ ContinuousIdle
    /\ ExtIdle

SpecRetryNext ==
    \/ RetryAttempt /\ RetryOthers
    \/ RetrySleepDone /\ RetryOthers

SpecRetry == SpecRetryInit /\ [][SpecRetryNext]_vars

\* The index of the first call of fn that succeeds, 0 when no call among the
\* first n does.
FirstOk(n) ==
    IF \E i \in 1..n : r_fn[i].ok
    THEN CHOOSE i \in 1..n : r_fn[i].ok /\ \A k \in 1..(i - 1) : ~r_fn[k].ok
    ELSE 0

\* C9: _retry calls fn at most 3 times; it returns the value of the first
\* call that succeeds and calls fn no more; between calls it waits 1 s, then
\* 3 s, following the schedule 1 / 3 / 7; after the third failure in a row it
\* raises that third error.
C9_RetryContract ==
    /\ r_calls <= 3
    /\ r_state = "returned" =>
           /\ FirstOk(3) = r_calls
           /\ r_result = r_fn[r_calls].v
           /\ r_waits = SubSeq(<<1, 3, 7>>, 1, r_calls - 1)
    /\ r_state = "raised" =>
           /\ FirstOk(3) = 0
           /\ r_calls = 3
           /\ r_result = r_fn[3].v
           /\ r_waits = <<1, 3>>
    /\ r_state = "sleeping" =>
           /\ FirstOk(r_calls) = 0
           /\ r_calls < 3
           /\ r_waits = SubSeq(<<1, 3, 7>>, 1, r_calls)
    /\ r_state = "running" => r_calls = r_attempt /\ Len(r_waits) = r_calls

\* C9 witness: fn failed three times, _retry waited 1 s and 3 s and raised
\* the third error.
C9_Witness ==
    /\ r_state = "raised"
    /\ r_calls = 3
    /\ r_waits = <<1, 3>>
    /\ r_fn[1].v = "e1" /\ r_fn[2].v = "e1" /\ r_fn[3].v = "e2"
    /\ r_result = "e2"

----------------------------------------------------------------------------
(***************************************************************************)
(* SpecRetryFailed: the operator runs retry-failed on any job table        *)
(***************************************************************************)
\* Any table of jobs at rest: every job pending, loaded, or failed with one
\* of the messages.
RetryFailedInit ==
    /\ status \in [Jobs -> {"pending", "loaded", "failed"}]
    /\ error_message \in [Jobs -> Msgs \cup {NoMsg}]
    /\ \A j \in Jobs : error_message[j] # NoMsg <=> status[j] = "failed"
    /\ age = [j \in Jobs |-> NoAge]
    /\ WorkersIdle
    /\ RetryFailedIdle
    /\ RetryIdle
    /\ DiscoverIdle
    /\ ContinuousIdle
    /\ ExtIdle

RetryFailedOthers == UNCHANGED <<rvars, dvars, svars, xvars>>

SpecRetryFailedNext ==
    \/ \E like \in LikeArgs, lim \in 0..NumJobs, dry \in BOOLEAN :
          RetryFailedStart(like, lim, dry) /\ RetryFailedOthers
    \/ RetryFailedSelect /\ RetryFailedOthers
    \/ RetryFailedUpdate /\ RetryFailedOthers

SpecRetryFailed == RetryFailedInit /\ [][SpecRetryFailedNext]_vars

\* C7: retry-failed --error-like X changes only failed jobs whose
\* error_message contains X (every failed job when X is not given), making
\* them pending with no error_message; every other job is left as it was,
\* and so is every job under --dry-run.
C7_RetryFailedFrame ==
    [][/\ \A j \in Jobs :
             (status'[j] # status[j] \/ error_message'[j] # error_message[j]) =>
                 /\ status[j] = "failed"
                 /\ f_like # <<>> => Contains(error_message[j], f_like)
                 /\ status'[j] = "pending"
                 /\ error_message'[j] = NoMsg
       /\ \A like \in LikeArgs, lim \in 0..NumJobs :
             RetryFailedStart(like, lim, TRUE) =>
                 /\ f_pc' = "idle"
                 /\ UNCHANGED <<status, error_message>>]_vars

----------------------------------------------------------------------------
(***************************************************************************)
(* SpecDiscover: discover_regulations called again and again for one type  *)
(***************************************************************************)
\* The cutoff compared the wrong way round.
is_discovery_fresh_Mut(hours, fh) == hours # NoAge /\ hours > fh

\* is_discovery_fresh: no row, not fresh; else `last > cutoff` with
\* cutoff = now - freshness_hours.
is_discovery_fresh(hours, fh) == hours # NoAge /\ hours < fh

\* `(total + 19) // 20 if total else 1`, then `min(.., max_pages_per_type)`.
TotalPages(total, maxp) ==
    LET n == IF total # 0 THEN (total + 19) \div 20 ELSE 1
    IN IF maxp # 0 THEN Min(n, maxp) ELSE n

\* `for reg in regs: upsert_job(reg)` for listing page `page`, which names
\* the URL of job `page` when there is one; nothing is written on a dry run.
UpsertPage(page, dry) ==
    IF ~dry /\ page \in Jobs
    THEN upsert_job(page, "pending")
    ELSE UNCHANGED <<status, age, error_message>>

\* upsert_discovery_progress: the row is written with last_discovered_at = now.
SaveProgress(total, pages_crawled, total_pages) ==
    /\ d_cached' = <<total, pages_crawled, total_pages>>
    /\ d_age' = 0
    /\ d_rec' = d_args

\* The quick-skip never taken.
QuickSkip_Mut(args, row, total) == FALSE

\* The quick-skip test after the head probe: `not ignore_freshness and not
\* dry_run and total is not None`, a cached row with the same
\* total_regulations and pages_crawled >= ceil(total / 20), and
\* `max_pages_per_type is None`.
QuickSkip(args, row, total) ==
    /\ ~args.ignore /\ ~args.dry /\ total # 0
    /\ row # NoRow
    /\ row[1] = total
    /\ row[2] >= (total + 19) \div 20
    /\ args.maxp = 0

DiscoverOthers == UNCHANGED <<wpc, wbatch, widx, fvars, rvars, svars, xvars>>

\* The call starts on the type and passes the freshness gate:
\* `if not ignore_freshness and not dry_run` and the type is fresh, the type
\* is skipped.
DiscStart(args) ==
    /\ d_pc = "idle"
    /\ d_args' = args
    /\ d_http' = 0
    /\ d_total' = 0
    /\ d_page' = 0
    /\ d_done' = 0
    /\ d_pc' = IF ~args.ignore /\ ~args.dry /\ is_discovery_fresh(d_age, args.fh)
               THEN "idle"
               ELSE "probe"
    /\ UNCHANGED <<d_age, d_rec, d_cached, status, age, error_message>>
    /\ DiscoverOthers

\* The first listing page is fetched. A failed fetch ends the type. When the
\* total is unchanged and every page was crawled before, only the timestamp
\* is refreshed; else the jobs of the first page are upserted.
DiscProbe(ok, total) ==
    /\ d_pc = "probe"
    /\ d_http' = d_http + 1
    /\ IF ~ok
       THEN /\ d_pc' = "idle"
            /\ UNCHANGED <<d_total, d_page, d_done, d_age, d_rec, d_cached>>
            /\ UNCHANGED <<status, age, error_message>>
       ELSE IF QuickSkip(d_args, d_cached, total)
            THEN /\ SaveProgress(total, d_cached[2], d_cached[3])
                 /\ d_pc' = "idle"
                 /\ d_total' = total
                 /\ UNCHANGED <<d_page, d_done, status, age, error_message>>
            ELSE /\ UpsertPage(1, d_args.dry)
                 /\ d_total' = total
                 /\ d_done' = 1
                 /\ d_page' = 2
                 /\ d_pc' = "pages"
                 /\ UNCHANGED <<d_age, d_rec, d_cached>>
    /\ UNCHANGED d_args
    /\ DiscoverOthers

\* `for page in range(2, total_pages + 1)`: the page is fetched; its jobs are
\* upserted unless the fetch failed.
DiscPage(ok) ==
    /\ d_pc = "pages"
    /\ d_page <= TotalPages(d_total, d_args.maxp)
    /\ d_http' = d_http + 1
    /\ IF ok
       THEN UpsertPage(d_page, d_args.dry) /\ d_done' = d_done + 1
       ELSE UNCHANGED <<status, age, error_message, d_done>>
    /\ d_page' = d_page + 1
    /\ UNCHANGED <<d_pc, d_args, d_age, d_rec, d_cached, d_total>>
    /\ DiscoverOthers

\* After the last page the progress is saved, `if not dry_run`.
DiscSave ==
    /\ d_pc = "pages"
    /\ d_page > TotalPages(d_total, d_args.maxp)
    /\ IF ~d_args.dry
       THEN SaveProgress(d_total, d_done, TotalPages(d_total, d_args.maxp))
       ELSE UNCHANGED <<d_age, d_rec, d_cached>>
    /\ d_pc' = "idle"
    /\ UNCHANGED <<d_args, d_http, d_total, d_page, d_done, status, age, error_message>>
    /\ DiscoverOthers

\* An hour passes.
DiscTick ==
    /\ d_age # NoAge
    /\ d_age < HourSat
    /\ d_age' = d_age + 1
    /\ UNCHANGED <<d_pc, d_args, d_rec, d_cached, d_http, d_total, d_page, d_done>>
    /\ UNCHANGED <<status, age, error_message>>
    /\ DiscoverOthers

SpecDiscoverNext ==
    \/ \E args \in DiscArgs : DiscStart(args)
    \/ \E ok \in BOOLEAN, total \in SiteTotals : DiscProbe(ok, total)
    \/ \E ok \in BOOLEAN : DiscPage(ok)
    \/ DiscSave
    \/ DiscTick

SpecDiscover == Init /\ [][SpecDiscoverNext]_vars

\* C8: when last_discovered_at was recorded less than freshness_hours ago, a
\* call with the arguments of the call that recorded it, ignore_freshness
\* not set, ends at once: no HTTP request, no job upserted.
C8_FreshnessSkip ==
    [][\A args \in DiscArgs :
          (/\ DiscStart(args)
           /\ d_age # NoAge /\ d_age < args.fh
           /\ args = d_rec
           /\ ~args.ignore)
              => /\ d_pc' = "idle"
                 /\ d_http' = 0
                 /\ status' = status]_vars

\* C8 witness: a call recorded the discovery, an hour passed, and the call
\* made again with the same arguments (2 hours of freshness) was skipped
\* without a request.
C8_Witness ==
    /\ d_pc = "idle"
    /\ d_rec # NoArgs
    /\ d_args = d_rec
    /\ ~d_args.ignore
    /\ d_args.fh = 2
    /\ d_age = 1
    /\ d_http = 0

\* The case of the quick-skip: the freshness window has expired, the head
\* probe found the cached total, and every page was crawled before.
QuickSkipCase(total) ==
    /\ d_age # NoAge /\ ~is_discovery_fresh(d_age, d_args.fh)
    /\ total # 0
    /\ d_cached # NoRow
    /\ d_cached[1] = total
    /\ d_cached[2] >= (total + 19) \div 20

\* What the quick-skip does: the call ends after the head probe, no job is
\* written, and the progress row keeps its totals and page counts with
\* last_discovered_at = now.
QuickSkipEffect ==
    /\ d_pc' = "idle"
    /\ d_http' = d_http + 1
    /\ status' = status /\ age' = age /\ error_message' = error_message
    /\ d_cached' = d_cached
    /\ d_age' = 0

\* C27 as stated: whenever the window has expired, the total is unchanged
\* and every page was crawled before, the call only refreshes the timestamp.
C27_Original ==
    [][\A total \in SiteTotals :
          (DiscProbe(TRUE, total) /\ QuickSkipCase(total)) => QuickSkipEffect]_vars

\* C27 amended: the same for a call without ignore_freshness, without
\* dry_run and without a page limit.
C27_Amended ==
    [][\A total \in SiteTotals :
          (/\ DiscProbe(TRUE, total) /\ QuickSkipCase(total)
           /\ ~d_args.ignore /\ ~d_args.dry /\ d_args.maxp = 0) => QuickSkipEffect]_vars

\* C27 witness: a call ended after its head probe, which found a total, with
\* no page processed and the timestamp refreshed.
C27_Witness ==
    /\ d_pc = "idle" /\ d_http = 1 /\ d_total # 0 /\ d_done = 0
    /\ d_age = 0 /\ d_cached # NoRow /\ d_cached[1] = d_total

----------------------------------------------------------------------------
(***************************************************************************)
(* SpecContinuous: cmd_continuous with a Store that can fail at any call   *)
(* (a failure is one that outlasts the retries of _retry)                  *)
(***************************************************************************)
ContinuousInit ==
    /\ QueueInit /\ RetryFailedIdle /\ RetryIdle /\ DiscoverIdle /\ ExtIdle
    /\ s_pc = "top"
    /\ s_args \in ContArgs
    /\ s_batch_count = 0
    /\ s_sleep = 0
    /\ s_error = NULL
    /\ s_iter = NoIter

ContStepIter(pc, sleep, iter) ==
    /\ s_pc' = pc
    /\ s_sleep' = sleep
    /\ s_iter' = iter
    /\ UNCHANGED <<s_args, s_batch_count, s_error>>

ContStep(pc, sleep) == ContStepIter(pc, sleep, s_iter)

\* `while True: batch_count += 1` and the choice of what the iteration does.
ContTop ==
    /\ s_pc = "top"
    /\ s_batch_count < MaxIterations
    /\ s_batch_count' = s_batch_count + 1
    /\ s_pc' = IF s_args.discovery_first /\ s_batch_count' = 1 /\ s_args.discover
               THEN "discovery_first"
               ELSE IF s_args.discover
                       /\ (s_batch_count' = 1 \/ s_batch_count' % s_args.interval = 0)
                    THEN "discover"
                    ELSE "create_run"
    /\ s_iter' = NoIter
    /\ UNCHANGED <<s_args, s_sleep, s_error>>

\* The discovery-only first iteration: discover_regulations inside
\* try/except, then `time.sleep(sleep_between); continue`.
ContDiscoveryFirst(ok) ==
    /\ s_pc = "discovery_first"
    /\ ContStepIter("sleep", 1, [s_iter EXCEPT !.disc = @ + 1, !.ignore = TRUE])

\* The periodic discovery inside try/except; processing follows either way.
ContDiscover(ok) ==
    /\ s_pc = "discover"
    /\ ContStepIter("create_run", 0, [s_iter EXCEPT !.disc = @ + 1])

\* `run_id = _create_run("continuous")`, before the try statement: the error
\* _retry re-raises leaves cmd_continuous.
ContCreateRun(ok) ==
    /\ s_pc = "create_run"
    /\ IF ok
       THEN ContStep("process", 0)
       ELSE /\ s_pc' = "terminated"
            /\ s_error' = "create_run"
            /\ UNCHANGED <<s_args, s_batch_count, s_sleep, s_iter>>

\* `stats = asyncio.run(process_jobs(..))` inside the try: it raises (the
\* claim failed, or an error escaped a job), or returns its stats.
ContProcess(ok, processed) ==
    /\ s_pc = "process"
    /\ IF ~ok
       THEN ContStepIter("except", 0,
                         [s_iter EXCEPT !.claims = @ + 1, !.raised = TRUE])
       ELSE ContStepIter(IF processed THEN "completed_some" ELSE "completed_none", 0,
                         [s_iter EXCEPT !.claims = @ + 1,
                                        !.processed = IF processed THEN "some" ELSE "none"])

\* `_update_run(run_id, stats, "completed")`, which never raises; then, with
\* nothing processed, reprocess_jobs, else the sleep.
ContUpdateRun(ok) ==
    /\ s_pc \in {"completed_some", "completed_none"}
    /\ IF s_pc = "completed_some"
       THEN ContStep("sleep", 1)
       ELSE ContStep("reprocess", 0)

\* The sleep after a reprocess batch, always the normal one.
ReprocessSleep_Mut(processed) == 1

\* `if rp_stats["processed"] > 0: time.sleep(sleep_between)`,
\* `else: time.sleep(sleep_between * 5)`.
ReprocessSleep(processed) == IF processed THEN 1 ELSE 5

\* `rp_stats = reprocess_jobs(batch_size=batch_size)` inside the try.
ContReprocess(ok, processed) ==
    /\ s_pc = "reprocess"
    /\ IF ~ok
       THEN ContStepIter("except", 0,
                         [s_iter EXCEPT !.reprocess = @ + 1, !.raised = TRUE])
       ELSE ContStepIter("sleep", ReprocessSleep(processed),
                         [s_iter EXCEPT !.reprocess = @ + 1,
                                        !.rp = IF processed THEN "some" ELSE "none"])

\* `except Exception: _update_run(run_id, EMPTY_STATS, "failed", str(e))`,
\* which never raises, then `time.sleep(sleep_between * 2)`.
ContExcept(ok) ==
    /\ s_pc = "except"
    /\ ContStep("sleep", 2)

\* The sleep ends and the loop takes its next iteration.
ContSleepDone ==
    /\ s_pc = "sleep"
    /\ ContStep("top", 0)

ContinuousOthers == UNCHANGED <<qvars, fvars, rvars, dvars, xvars>>

SpecContinuousNext ==
    \/ ContTop /\ ContinuousOthers
    \/ \E ok \in BOOLEAN : ContDiscoveryFirst(ok) /\ ContinuousOthers
    \/ \E ok \in BOOLEAN : ContDiscover(ok) /\ ContinuousOthers
    \/ \E ok \in BOOLEAN : ContCreateRun(ok) /\ ContinuousOthers
    \/ \E ok, processed \in BOOLEAN : ContProcess(ok, processed) /\ ContinuousOthers
    \/ \E ok \in BOOLEAN : ContUpdateRun(ok) /\ ContinuousOthers
    \/ \E ok, processed \in BOOLEAN : ContReprocess(ok, processed) /\ ContinuousOthers
    \/ \E ok \in BOOLEAN : ContExcept(ok) /\ ContinuousOthers
    \/ ContSleepDone /\ ContinuousOthers

SpecContinuous == ContinuousInit /\ [][SpecContinuousNext]_vars

\* C10: no Store error ends the supervisor loop: whatever call fails, the
\* iteration sleeps and the loop goes on.
C10_NeverTerminates == s_pc # "terminated"

\* C25: an iteration that claimed a batch sleeps the normal sleep when the
\* batch processed a job; with nothing processed it runs one reprocess batch
\* and sleeps the normal sleep when that processed something and 5 times
\* the normal sleep when not; it sleeps twice the normal sleep when an error
\* reached the except branch.
C25_SleepRules ==
    /\ s_iter.reprocess <= 1
    /\ (s_pc = "sleep" /\ s_iter.claims > 0) =>
          /\ s_iter.raised => s_sleep = 2
          /\ (~s_iter.raised /\ s_iter.processed = "some") =>
                s_iter.reprocess = 0 /\ s_sleep = 1
          /\ (~s_iter.raised /\ s_iter.processed = "none") =>
                /\ s_iter.reprocess = 1
                /\ s_iter.rp = "some" => s_sleep = 1
                /\ s_iter.rp = "none" => s_sleep = 5

\* An iteration whose batch was empty and whose reprocess batch found
\* nothing either is in its long sleep.
C25_Witness ==
    /\ s_pc = "sleep" /\ s_iter.claims = 1 /\ ~s_iter.raised
    /\ s_iter.processed = "none" /\ s_iter.rp = "none" /\ s_sleep = 5

\* The iteration in progress has ended: it sleeps, or the loop was left.
IterationEnded == s_pc \in {"sleep", "terminated"}

\* The iteration is the discovery-only one of --discovery-first.
FirstOnly == s_args.discovery_first /\ s_batch_count = 1

\* C26: every iteration claims exactly one batch, except the first one
\* under --discovery-first, which only runs discovery with freshness
\* ignored; discovery runs on iteration 1 and on the multiples of
\* discover_interval, and never when it is disabled.
C26_OneBatchPerIteration ==
    IterationEnded =>
        /\ FirstOnly => s_iter.claims = 0 /\ s_iter.disc = 1 /\ s_iter.ignore
        /\ ~FirstOnly => s_iter.claims = 1
        /\ (s_args.discover /\ ~FirstOnly) =>
              (s_iter.disc = 1 <=> (s_batch_count = 1 \/ s_batch_count % s_args.interval = 0))
        /\ s_iter.disc <= 1
        /\ ~s_args.discover => s_iter.disc = 0

----------------------------------------------------------------------------
(***************************************************************************)
(* SpecFlatten: _flatten_tree on every tree of MaxNodes nodes              *)
(***************************************************************************)
\* `node["children"]` of node p (the top-level list for p = 0).
Children(tree, p) ==
    LET S == {n \in Nodes : tree.parent[n] = p}
    IN CHOOSE c \in [1..Cardinality(S) -> S] :
           \A a, b \in 1..Cardinality(S) : a < b => tree.ord[c[a]] < tree.ord[c[b]]

\* The counter of the walk shared by every level, one step too late.
NextCounter_Mut(counter, depth) == counter + (IF depth = 0 THEN 1 ELSE 0)

\* `counter[0] += 1`
NextCounter(counter, depth) == counter + 1

\* _walk(children, parent_global_idx, path_prefix, depth) of _flatten_tree,
\* on the state st = [result, counter] the closure shares; parent_idx is
\* an index into result (0 for None), path the list of path segments.
RECURSIVE _walk(_, _, _, _, _, _)
_walk(tree, kids, parent_global_idx, path_prefix, depth, st) ==
    IF kids = <<>> THEN st
    ELSE LET node == Head(kids)
             c == NextCounter(st.counter, depth)
             path == Append(path_prefix, node)
             my_idx == Len(st.result) + 1
             st1 == [result |-> Append(st.result,
                                  [node |-> node, depth |-> depth,
                                   parent_idx |-> parent_global_idx,
                                   path |-> path, sort_order |-> c]),
                     counter |-> c]
             st2 == IF Children(tree, node) # <<>>
                    THEN _walk(tree, Children(tree, node), my_idx, path, depth + 1, st1)
                    ELSE st1
         IN _walk(tree, Tail(kids), parent_global_idx, path_prefix, depth, st2)

_flatten_tree(tree) ==
    _walk(tree, Children(tree, 0), 0, <<>>, 0, [result |-> <<>>, counter |-> 0]).result

FlattenOthers ==
    UNCHANGED <<qvars, fvars, rvars, dvars, svars, lvars, pvars, ovars, rlvars, xcvars, kvars,
                crvars,
                mvars,
                gvars,
                bvars,
                rpvars,
                avars,
                nvars,
                rqvars>>

FlattenInit ==
    /\ BatchesIdle
    /\ BatchIdle
    /\ CorrectionIdle
    /\ RomanIdle
    /\ BodyIdle
    /\ DownloadIdle
    /\ RuntimeIdle
    /\ ConcurrentIdle
    /\ QueueInit /\ RetryFailedIdle /\ RetryIdle /\ DiscoverIdle /\ ContinuousIdle
    /\ LoadIdle /\ ParseIdle /\ OcrIdle /\ RateLimiterIdle /\ CrashIdle /\ StoreCallsIdle
    /\ t_tree \in Trees
    /\ t_flat = <<>>

Flatten ==
    /\ t_flat = <<>>
    /\ t_flat' = _flatten_tree(t_tree)
    /\ UNCHANGED t_tree
    /\ FlattenOthers

SpecFlatten == FlattenInit /\ [][Flatten]_vars

\* The entry of the flat list that holds node n.
EntryOf(n) == CHOOSE i \in 1..Len(t_flat) : t_flat[i].node = n

SortOrder(n) == t_flat[EntryOf(n)].sort_order

\* The next sibling of n, or the next sibling of the nearest ancestor that
\* has one; 0 when there is none.
RECURSIVE NextSiblingOrAncestorSibling(_, _)
NextSiblingOrAncestorSibling(tree, n) ==
    LET sibs == Children(tree, tree.parent[n])
        i == CHOOSE k \in 1..Len(sibs) : sibs[k] = n
    IN IF i < Len(sibs) THEN sibs[i + 1]
       ELSE IF tree.parent[n] = 0 THEN 0
       ELSE NextSiblingOrAncestorSibling(tree, tree.parent[n])

\* C13: the sort_order values of the N nodes are pairwise distinct and are
\* exactly 1..N, and every node lies after its parent and before its next
\* sibling (or the next sibling of its nearest ancestor that has one).
C13_DfsPreOrder ==
    t_flat # <<>> =>
        /\ Len(t_flat) = MaxNodes
        /\ {t_flat[i].node : i \in 1..Len(t_flat)} = Nodes
        /\ {t_flat[i].sort_order : i \in 1..Len(t_flat)} = 1..MaxNodes
        /\ \A n \in Nodes :
              /\ t_tree.parent[n] # 0 => SortOrder(t_tree.parent[n]) < SortOrder(n)
              /\ NextSiblingOrAncestorSibling(t_tree, n) # 0 =>
                     SortOrder(n) < SortOrder(NextSiblingOrAncestorSibling(t_tree, n))

\* C13 witness: a chain 1 > 2 with a sibling 3 of the root after it has been
\* flattened: the child is numbered before its parent's next sibling.
C13_Witness ==
    /\ t_flat # <<>>
    /\ t_tree.parent = <<0, 1, 0>>
    /\ t_tree.ord[1] < t_tree.ord[3]
    /\ SortOrder(1) = 1 /\ SortOrder(2) = 2 /\ SortOrder(3) = 3

----------------------------------------------------------------------------
(***************************************************************************)
(* SpecLoad: a job's PDF is loaded by process_jobs and reloaded by         *)
(* reprocess_jobs, every store call succeeding or failing                  *)
(***************************************************************************)
\* The trees loaded: siblings stand in the order of their labels.
LoadTrees == {t \in Trees : \A n \in Nodes : t.ord[n] = n}

LoadInit ==
    /\ BatchesIdle
    /\ BatchIdle
    /\ CorrectionIdle
    /\ RomanIdle
    /\ BodyIdle
    /\ DownloadIdle
    /\ RuntimeIdle
    /\ ConcurrentIdle
    /\ QueueInit /\ RetryFailedIdle /\ RetryIdle /\ DiscoverIdle /\ ContinuousIdle
    /\ ParseIdle /\ OcrIdle /\ RateLimiterIdle /\ CrashIdle /\ StoreCallsIdle
    /\ l_pc = "idle"
    /\ l_mode = "process"
    /\ l_status = "downloaded"
    /\ l_run = 0
    /\ l_depth = 0
    /\ l_inserted = {}
    /\ db_work = FALSE
    /\ db_nodes = {}
    /\ db_chunks = {}
    /\ l_text \in {"short", "junk", "law"}
    /\ l_quality \in {"born_digital", "scanned_clean", "image_only"}
    /\ l_error = <<>>
    /\ l_version \in {NoVersion, EXTRACTION_VERSION - 1}
    /\ l_hash = "h1"
    /\ l_file = "h1"
    /\ l_warn = 0
    /\ l_force = FALSE
    /\ t_tree \in LoadTrees
    /\ t_flat = <<>>

LoadOthers ==
    UNCHANGED <<qvars, fvars, rvars, dvars, svars, t_tree, pvars, ovars, rlvars, xcvars, kvars,
                crvars,
                mvars,
                gvars,
                bvars,
                rpvars,
                avars,
                nvars,
                rqvars>>

\* The flat entries at depth d.
Level(d) == {i \in 1..Len(t_flat) : t_flat[i].depth = d}

MaxDepth == CHOOSE d \in 0..MaxNodes :
                Level(d) # {} /\ \A e \in (d + 1)..MaxNodes : Level(e) = {}

\* Nodes of a type in _CHUNK_NODE_TYPES: the leaves (pasal and the like).
IsChunkNode(i) == Children(t_tree, t_flat[i].node) = <<>>

\* The message the except branch of the caller writes with 'failed'.
ErrorOf(mode, msg) == IF mode = "reprocess" THEN <<"reprocess: ", msg>> ELSE <<msg>>

\* The jobs reprocess_jobs only looks at the status of
ReprocessSelects_Mut(force) == l_status \in {"loaded", "parsed", "downloaded"}

\* The query of reprocess_jobs: the status filter, and `extraction_version <
\* EXTRACTION_VERSION` unless forced (no row with a NULL version passes it).
ReprocessSelects(force) ==
    /\ l_status \in {"loaded", "parsed", "downloaded"}
    /\ force \/ (l_version # NoVersion /\ l_version < EXTRACTION_VERSION)

\* _extract_and_load is entered: by process_jobs for the job it has just set
\* to 'downloaded' with the hash of the file, by reprocess_jobs for a job of
\* its query, after one warning when the hash of the file it found is not the
\* stored one.  A text under 100 characters raises; any other text goes on
\* to correction, parsing and loading, whatever classify_pdf_quality says of
\* the PDF.  The parsed tree is the same at every load.
LoadStart(mode, file, force) ==
    /\ l_pc = "idle"
    /\ l_run < MaxRuns
    /\ IF mode = "process"
       THEN l_status = "downloaded" /\ file = l_hash /\ ~force
       ELSE ReprocessSelects(force)
    /\ l_mode' = mode
    /\ l_force' = force
    /\ l_file' = file
    /\ l_warn' = IF mode = "reprocess" /\ l_hash # file THEN 1 ELSE 0
    /\ l_run' = l_run + 1
    /\ t_flat' = _flatten_tree(t_tree)
    /\ l_depth' = 0
    /\ l_inserted' = {}
    /\ IF l_text = "short"
       THEN /\ l_status' = "failed"
            /\ l_error' = ErrorOf(mode, "PDF text too short")
            /\ l_pc' = "idle"
       ELSE /\ l_pc' = "work"
            /\ UNCHANGED <<l_status, l_error>>
    /\ UNCHANGED <<db_work, db_nodes, db_chunks, l_text, l_quality, l_version, l_hash>>

\* load_work: the works row is upserted on frbr_uri; a failure returns None
\* and _extract_and_load raises, which the caller turns into 'failed'.
LoadWork(ok) ==
    /\ l_pc = "work"
    /\ IF ok
       THEN /\ db_work' = TRUE
            /\ l_pc' = "clean_chunks"
            /\ UNCHANGED <<l_status, l_error>>
       ELSE /\ l_status' = "failed"
            /\ l_error' = ErrorOf(l_mode, "Failed to upsert work")
            /\ l_pc' = "idle"
            /\ UNCHANGED db_work
    /\ UNCHANGED <<l_mode, l_run, l_depth, l_inserted, db_nodes, db_chunks, t_flat>>
    /\ UNCHANGED <<l_text, l_quality, l_version, l_hash, l_file, l_warn, l_force>>

\* cleanup_work_data, `legal_chunks`: a failed delete is a warning.
LoadCleanChunks(ok) ==
    /\ l_pc = "clean_chunks"
    /\ db_chunks' = IF ok THEN {} ELSE db_chunks
    /\ l_pc' = "clean_nodes"
    /\ UNCHANGED <<l_mode, l_status, l_run, l_depth, l_inserted, db_work, db_nodes, t_flat>>
    /\ UNCHANGED jvars

\* cleanup_work_data, `document_nodes`: a failed delete is a warning.
LoadCleanNodes(ok) ==
    /\ l_pc = "clean_nodes"
    /\ db_nodes' = IF ok THEN {} ELSE db_nodes
    /\ l_pc' = "insert"
    /\ UNCHANGED <<l_mode, l_status, l_run, l_depth, l_inserted, db_work, db_chunks, t_flat>>
    /\ UNCHANGED jvars

\* load_nodes_by_level, one depth: the batch insert puts in every node of
\* the depth; when it fails the nodes are inserted one by one and any of
\* them may fail, which is printed and passed over.
LoadInsertLevel(S) ==
    /\ l_pc = "insert"
    /\ S \subseteq Level(l_depth)
    /\ db_nodes' = db_nodes \cup {[run |-> l_run, idx |-> i] : i \in S}
    /\ l_inserted' = l_inserted \cup S
    /\ IF l_depth = MaxDepth
       THEN l_pc' = "chunks" /\ UNCHANGED l_depth
       ELSE l_pc' = "insert" /\ l_depth' = l_depth + 1
    /\ UNCHANGED <<l_mode, l_status, l_run, db_work, db_chunks, t_flat>>
    /\ UNCHANGED jvars

\* The chunks create_chunks builds: one per inserted node of a chunk type,
\* or the chunk of the full text when there is none.
ChunkCandidates ==
    LET pasal_nodes == {i \in l_inserted : IsChunkNode(i)}
    IN IF pasal_nodes # {} THEN pasal_nodes ELSE {0}

\* create_chunks: one chunk per inserted node of a chunk type, or chunks of
\* the full text when there is none; a failed batch is inserted one by one
\* and any chunk may fail.
LoadChunks(C) ==
    /\ l_pc = "chunks"
    /\ C \subseteq ChunkCandidates
    /\ db_chunks' = db_chunks \cup {[run |-> l_run, idx |-> i] : i \in C}
    /\ l_pc' = "mark"
    /\ UNCHANGED <<l_mode, l_status, l_run, l_depth, l_inserted, db_work, db_nodes, t_flat>>
    /\ UNCHANGED jvars

\* The caller's update of the job: 'loaded' with the current extraction
\* version, and from reprocess_jobs the hash of the file read; when the
\* update raises, the except branch writes 'failed'.
LoadMark(ok) ==
    /\ l_pc = "mark"
    /\ IF ok
       THEN /\ l_status' = "loaded"
            /\ l_version' = EXTRACTION_VERSION
            /\ l_hash' = IF l_mode = "reprocess" THEN l_file ELSE l_hash
            /\ UNCHANGED l_error
       ELSE /\ l_status' = "failed"
            /\ l_error' = ErrorOf(l_mode, "store error")
            /\ UNCHANGED <<l_version, l_hash>>
    /\ l_pc' = "idle"
    /\ UNCHANGED <<l_mode, l_run, l_depth, l_inserted, db_work, db_nodes, db_chunks, t_flat>>
    /\ UNCHANGED <<l_text, l_quality, l_file, l_warn, l_force>>

SpecLoadNext ==
    \/ \E mode \in {"process", "reprocess"}, file \in Hashes, force \in BOOLEAN :
           LoadStart(mode, file, force) /\ LoadOthers
    \/ \E ok \in BOOLEAN : LoadWork(ok) /\ LoadOthers
    \/ \E ok \in BOOLEAN : LoadCleanChunks(ok) /\ LoadOthers
    \/ \E ok \in BOOLEAN : LoadCleanNodes(ok) /\ LoadOthers
    \/ \E S \in SUBSET Nodes : LoadInsertLevel(S) /\ LoadOthers
    \/ \E C \in SUBSET (0..MaxNodes) : LoadChunks(C) /\ LoadOthers
    \/ \E ok \in BOOLEAN : LoadMark(ok) /\ LoadOthers

SpecLoad == LoadInit /\ [][SpecLoadNext]_vars

\* The rows one complete load number r leaves: every node, and a chunk for
\* every node of a chunk type.
RunNodes(r) == {[run |-> r, idx |-> i] : i \in 1..MaxNodes}

RunChunks(r) == {[run |-> r, idx |-> i] : i \in {k \in 1..MaxNodes : IsChunkNode(k)}}

\* C11: whenever the job's status is loaded, the work's stored tree and
\* chunks are the complete output of one load.
C11_LoadedSeesFullTree ==
    (l_status = "loaded" /\ t_flat # <<>>) =>
        \E r \in 1..MaxRuns : db_nodes = RunNodes(r) /\ db_chunks = RunChunks(r)

\* C12: after the second load of the same job and PDF has marked the job
\* loaded, the work row is the same one and the stored nodes and chunks are
\* those of one load, with nothing of the first load left in addition.
C12_IdempotentReload ==
    (l_pc = "idle" /\ l_run = 2 /\ l_status = "loaded") =>
        /\ db_work
        /\ db_nodes = RunNodes(2)
        /\ db_chunks = RunChunks(2)

(***************************************************************************)
(* SpecReprocess: the same loads of one job, for the fields of its         *)
(* crawl_jobs row.  The law is a list of articles and an insert of the     *)
(* loader puts in all of its rows or none: which rows a failed insert      *)
(* leaves does not bear on the row of the job.                             *)
(***************************************************************************)
ReprocessInit ==
    /\ LoadInit
    /\ \A n \in Nodes : t_tree.parent[n] = 0

SpecReprocessNext ==
    \/ \E mode \in {"process", "reprocess"}, file \in Hashes, force \in BOOLEAN :
           LoadStart(mode, file, force) /\ LoadOthers
    \/ \E ok \in BOOLEAN : LoadWork(ok) /\ LoadOthers
    \/ \E ok \in BOOLEAN : LoadCleanChunks(ok) /\ LoadOthers
    \/ \E ok \in BOOLEAN : LoadCleanNodes(ok) /\ LoadOthers
    \/ \E S \in {Level(l_depth), {}} : LoadInsertLevel(S) /\ LoadOthers
    \/ \E C \in {ChunkCandidates, {}} : LoadChunks(C) /\ LoadOthers
    \/ \E ok \in BOOLEAN : LoadMark(ok) /\ LoadOthers

SpecReprocess == ReprocessInit /\ [][SpecReprocessNext]_vars

C17_JunkRejected ==
    l_text = "junk" =>
        /\ ~db_work /\ db_nodes = {} /\ db_chunks = {}
        /\ (l_run > 0 /\ l_pc = "idle") =>
               l_status = "failed" /\ l_error = <<"junk PDF (website capture)">>

\* C21: a job is marked loaded only if every node of the parsed tree was
\* stored by the load; a failed upsert of the work or insert of a node
\* leaves the job failed.
C21_LoadedOnlyIfStored ==
    (l_pc = "idle" /\ l_run > 0 /\ l_status = "loaded") =>
        l_inserted = 1..Len(t_flat)

\* C24: a PDF classified image_only is not loaded: no work row, node or
\* chunk is written for it and the job ends as needs_ocr.
C24_ImageOnlyNeedsOcr ==
    l_quality = "image_only" =>
        /\ ~db_work /\ db_nodes = {} /\ db_chunks = {}
        /\ (l_run > 0 /\ l_pc = "idle") => l_status = "needs_ocr"

\* The parent_id load_nodes_by_level gives the row of flat entry i:
\* idx_to_db_id.get(parent_idx), None (0) for a root and for a child whose
\* parent has no entry in the map.
ParentDbId(i) ==
    IF t_flat[i].parent_idx # 0 /\ t_flat[i].parent_idx \in l_inserted
    THEN t_flat[i].parent_idx
    ELSE 0

\* C30: every node the current load has stored is a root of depth 0 without
\* parent, or has a parent_id naming a stored node one level up.
C30_ParentStored ==
    \A i \in l_inserted :
        \/ t_flat[i].depth = 0 /\ ParentDbId(i) = 0
        \/ /\ ParentDbId(i) \in l_inserted
           /\ t_flat[i].depth = t_flat[ParentDbId(i)].depth + 1

----------------------------------------------------------------------------
(***************************************************************************)
(* SpecParse: parse_structure applied to a law text                        *)
(***************************************************************************)
\* The position of the first line of kind k among lines a..b, 0 if none.
FirstLine(text, k, a, b) ==
    LET S == {i \in a..b : text[i] = k}
    IN IF S = {} THEN 0 ELSE Least(S)

\* The characters of lines a..b joined by newlines.
RECURSIVE Chars(_, _, _)
Chars(text, a, b) ==
    IF a > b THEN 0
    ELSE LineLen(text[a]) + (IF a < b THEN 1 ELSE 0) + Chars(text, a + 1, b)

\* A node whose content is lines first..last of the text (none when
\* first > last).
Node(type, first, last) == [type |-> type, first |-> first, last |-> last]

\* The `Pasal N` lines among a..b that the body's PASAL_RE or the
\* explanation's split take as headers; the split needs a newline after
\* the header, which the last line of the text has not.
RECURSIVE PasalNodes(_, _, _, _, _)
PasalNodes(text, type, a, b, needNewline) ==
    LET H == {i \in a..b : text[i] = "PASAL" /\ (needNewline => i < Len(text))}
    IN IF H = {} THEN <<>>
       ELSE LET h == Least(H)
                R == {i \in H : i > h}
                e == IF R = {} THEN b ELSE Least(R) - 1
            IN <<Node(type, h + 1, e)>> \o PasalNodes(text, type, e + 1, b, needNewline)

\* parse_penjelasan on lines p..Len(text), line p being `PENJELASAN`.
parse_penjelasan(text, p) ==
    LET n == Len(text)
        umum_match == FirstLine(text, "UMUM", p, n)
        pasal_demi_match == FirstLine(text, "PDP", p, n)
    IN IF umum_match = 0 /\ pasal_demi_match = 0
       THEN IF p + 1 <= n THEN <<Node("penjelasan_umum", p + 1, n)>> ELSE <<>>
       ELSE
         (IF umum_match # 0 /\ Chars(text, p + 1, umum_match - 1) > 20
          THEN <<Node("penjelasan_umum", p + 1, umum_match - 1)>> ELSE <<>>)
         \o
         (IF umum_match # 0
          THEN LET umum_end == IF pasal_demi_match # 0 THEN pasal_demi_match - 1 ELSE n
               IN IF umum_match + 1 <= umum_end
                  THEN <<Node("penjelasan_umum", umum_match + 1, umum_end)>> ELSE <<>>
          ELSE <<>>)
         \o
         (IF pasal_demi_match # 0
          THEN LET h == FirstLine(text, "PASAL", pasal_demi_match + 1, n - 1)
                   pre_end == IF h = 0 THEN n ELSE h - 1
               IN (IF Chars(text, pasal_demi_match + 1, pre_end) > 20
                   THEN <<Node("penjelasan_umum", pasal_demi_match + 1, pre_end)>>
                   ELSE <<>>)
                  \o PasalNodes(text, "penjelasan_pasal", pasal_demi_match + 1, n, TRUE)
          ELSE <<>>)

\* parse_structure.  The body ends before the first `PENJELASAN` line.  With
\* no such line and a line `I. UMUM` or `II. PASAL DEMI PASAL` starting in
\* the second half of the text, the fallback looks for the last blank line
\* before it: the texts here have none, rfind gives -1, and the body is the
\* text without its last character, which alone is handed to
\* parse_penjelasan and covers no whole line.
parse_structure(text) ==
    LET n == Len(text)
        penjelasan_match == FirstLine(text, "PENJ", 1, n)
        b == IF penjelasan_match # 0 THEN penjelasan_match - 1 ELSE n
        half == Chars(text, 1, n) \div 2
        fb == penjelasan_match = 0 /\
              \E i \in 1..n : /\ text[i] \in {"UMUM", "PDP"}
                              /\ Chars(text, 1, i - 1) + (IF i > 1 THEN 1 ELSE 0) >= half
        first_marker == FirstLine(text, "PASAL", 1, b)
        pre_end == IF first_marker = 0 THEN b ELSE first_marker - 1
        preamble == IF pre_end >= 1 THEN <<Node("preamble", 1, pre_end)>> ELSE <<>>
        pasals == PasalNodes(text, "pasal", 1, b, FALSE)
    IN preamble
       \o pasals
       \o (IF first_marker = 0 /\ pre_end < 1 THEN <<Node("content", 1, 0)>> ELSE <<>>)
       \o (IF penjelasan_match # 0 THEN parse_penjelasan(text, penjelasan_match)
           ELSE IF fb THEN <<Node("penjelasan_umum", n + 1, n)>>
           ELSE <<>>)

ParseInit ==
    /\ BatchesIdle
    /\ BatchIdle
    /\ CorrectionIdle
    /\ RomanIdle
    /\ BodyIdle
    /\ DownloadIdle
    /\ RuntimeIdle
    /\ ConcurrentIdle
    /\ QueueInit /\ RetryFailedIdle /\ RetryIdle /\ DiscoverIdle /\ ContinuousIdle
    /\ FlattenIdle /\ LoadIdle /\ OcrIdle /\ RateLimiterIdle /\ CrashIdle /\ StoreCallsIdle
    /\ p_text \in Texts
    /\ p_nodes = <<>>

ParseOthers ==
    UNCHANGED <<qvars, fvars, rvars, dvars, svars, tvars, lvars, ovars, rlvars, xcvars, kvars,
                crvars,
                mvars,
                gvars,
                bvars,
                rpvars,
                avars,
                nvars,
                rqvars>>

Parse ==
    /\ p_nodes = <<>>
    /\ p_nodes' = parse_structure(p_text)
    /\ UNCHANGED p_text
    /\ ParseOthers

SpecParse == ParseInit /\ [][Parse]_vars

\* The lines in the content of some node.
Covered == UNION {p_nodes[k].first .. p_nodes[k].last : k \in 1..Len(p_nodes)}

\* C14: once the text is parsed, every line of running text, in the body
\* and in the explanation, is in the content of some node.
C14_LosslessParse ==
    p_nodes # <<>> =>
        \A i \in 1..Len(p_text) : p_text[i] \in {"s", "L"} => i \in Covered

----------------------------------------------------------------------------
(***************************************************************************)
(* SpecOcr: correct_ocr_errors applied to a text and again to its result   *)
(***************************************************************************)
IsDigit(c) == c \in {"0", "1", "2"}

\* (\d)O(?=\s|$|\n) -> the digit and 0
FixDigitO(t) ==
    [i \in 1..Len(t) |->
        IF /\ t[i] = "O"
           /\ i > 1 /\ IsDigit(t[i - 1])
           /\ (i = Len(t) \/ t[i + 1] = " ")
        THEN "0" ELSE t[i]]

\* (?<=\s)l(?=\d{2,}) -> 1
FixLeadingL(t) ==
    [i \in 1..Len(t) |->
        IF /\ t[i] = "l"
           /\ i > 1 /\ t[i - 1] = " "
           /\ i + 2 <= Len(t) /\ IsDigit(t[i + 1]) /\ IsDigit(t[i + 2])
        THEN "1" ELSE t[i]]

\* (?<=\d)l(?=\d) -> 1
FixInnerL(t) ==
    [i \in 1..Len(t) |->
        IF /\ t[i] = "l"
           /\ i > 1 /\ IsDigit(t[i - 1])
           /\ i < Len(t) /\ IsDigit(t[i + 1])
        THEN "1" ELSE t[i]]

\* The patterns are applied one after the other, in the order of the list.
correct_ocr_errors(t) == FixInnerL(FixLeadingL(FixDigitO(t)))

OcrInit ==
    /\ BatchesIdle
    /\ BatchIdle
    /\ CorrectionIdle
    /\ RomanIdle
    /\ BodyIdle
    /\ DownloadIdle
    /\ RuntimeIdle
    /\ ConcurrentIdle
    /\ QueueInit /\ RetryFailedIdle /\ RetryIdle /\ DiscoverIdle /\ ContinuousIdle
    /\ FlattenIdle /\ LoadIdle /\ ParseIdle /\ RateLimiterIdle /\ CrashIdle /\ StoreCallsIdle
    /\ o_text \in OcrTexts
    /\ o_first = <<>>
    /\ o_second = <<>>
    /\ o_n = 0

OcrOthers ==
    UNCHANGED <<qvars, fvars, rvars, dvars, svars, tvars, lvars, pvars, rlvars, xcvars, kvars,
                crvars,
                mvars,
                gvars,
                bvars,
                rpvars,
                avars,
                nvars,
                rqvars>>

OcrFirst ==
    /\ o_n = 0
    /\ o_first' = correct_ocr_errors(o_text)
    /\ o_n' = 1
    /\ UNCHANGED <<o_text, o_second>>
    /\ OcrOthers

OcrSecond ==
    /\ o_n = 1
    /\ o_second' = correct_ocr_errors(o_first)
    /\ o_n' = 2
    /\ UNCHANGED <<o_text, o_first>>
    /\ OcrOthers

SpecOcrNext == OcrFirst \/ OcrSecond

SpecOcr == OcrInit /\ [][SpecOcrNext]_vars

\* C15: correcting an already corrected text changes nothing.
C15_OcrIdempotent == o_n = 2 => o_second = o_first

----------------------------------------------------------------------------
(***************************************************************************)
(* SpecRateLimiter: one RateLimiter(max_calls, window_seconds) under       *)
(* check(), reset() and the passing of time                                *)
(***************************************************************************)
RateLimiterInit ==
    /\ BatchesIdle
    /\ BatchIdle
    /\ CorrectionIdle
    /\ RomanIdle
    /\ BodyIdle
    /\ DownloadIdle
    /\ RuntimeIdle
    /\ ConcurrentIdle
    /\ QueueInit /\ RetryFailedIdle /\ RetryIdle /\ DiscoverIdle /\ ContinuousIdle
    /\ FlattenIdle /\ LoadIdle /\ ParseIdle /\ OcrIdle /\ CrashIdle /\ StoreCallsIdle
    /\ rl_max \in 1..MaxCalls
    /\ rl_window \in 1..MaxWindow
    /\ rl_calls = <<>>
    /\ rl_now = 0
    /\ rl_op = "none"
    /\ rl_ret = 0
    /\ rl_allowed = <<>>

RateLimiterOthers ==
    UNCHANGED <<qvars, fvars, rvars, dvars, svars, tvars, lvars, pvars, ovars, xcvars, kvars,
                crvars,
                mvars,
                gvars,
                bvars,
                rpvars,
                avars,
                nvars,
                rqvars>>

\* [t for t in self._calls if t > cutoff]
Recent(calls, cutoff) ==
    LET Keep(t) == t > cutoff
    IN SelectSeq(calls, Keep)

Limited_Mut(calls, max) == Len(calls) > max

\* len(self._calls) >= self._max
Limited(calls, max) == Len(calls) >= max

RLCheck ==
    LET cutoff == rl_now - rl_window
        kept == Recent(rl_calls, cutoff)
    IN /\ rl_op' = "check"
       /\ IF Limited(kept, rl_max)
          THEN /\ rl_calls' = kept
               /\ rl_ret' = (kept[1] + rl_window - rl_now) + 1
               /\ UNCHANGED rl_allowed
          ELSE /\ rl_calls' = Append(kept, rl_now)
               /\ rl_ret' = 0
               /\ rl_allowed' = Append(rl_allowed, rl_now)
       /\ UNCHANGED <<rl_max, rl_window, rl_now>>
       /\ RateLimiterOthers

RLReset ==
    /\ rl_calls' = <<>>
    /\ rl_allowed' = <<>>
    /\ rl_op' = "reset"
    /\ UNCHANGED <<rl_max, rl_window, rl_now, rl_ret>>
    /\ RateLimiterOthers

RLTick ==
    /\ rl_now < MaxTime
    /\ rl_now' = rl_now + 1
    /\ rl_op' = "tick"
    /\ UNCHANGED <<rl_max, rl_window, rl_calls, rl_ret, rl_allowed>>
    /\ RateLimiterOthers

SpecRateLimiterNext == RLCheck \/ RLReset \/ RLTick

SpecRateLimiter == RateLimiterInit /\ [][SpecRateLimiterNext]_vars

\* The allowed checks since the last reset() that lie within the window
\* before now.
AllowedInWindow ==
    Cardinality({k \in 1..Len(rl_allowed) : rl_allowed[k] > rl_now - rl_window})

\* The entries of self._calls equal to t.
Recorded(calls, t) == Cardinality({k \in 1..Len(calls) : calls[k] = t})

\* C18: check() returns None and records the call exactly when fewer than
\* max_calls allowed calls lie within the preceding window; otherwise it
\* returns a positive number of seconds and records nothing; the check()
\* that follows a reset() is allowed.
C18_RateLimiter ==
    [][rl_op' = "check" =>
         /\ (rl_ret' = 0) <=> (AllowedInWindow < rl_max)
         /\ rl_ret' = 0 =>
                Recorded(rl_calls', rl_now) = Recorded(rl_calls, rl_now) + 1
         /\ rl_ret' # 0 =>
                /\ rl_ret' > 0
                /\ Recorded(rl_calls', rl_now) = Recorded(rl_calls, rl_now)
         /\ rl_op = "reset" => rl_ret' = 0
      ]_vars

C18_Witness ==
    /\ rl_op = "check"
    /\ rl_ret > 0
    /\ Len(rl_allowed) > rl_max

----------------------------------------------------------------------------
(***************************************************************************)
(* CrashSpec: the workers of LiveSpec, with the columns reprocess_jobs     *)
(* reads and reprocess_jobs itself                                         *)
(***************************************************************************)
MsgReprocess == <<"r", "e", "p">>

\* Job 1 is new: nothing has written its extraction_version.  Job 2 was
\* loaded by an older version of the worker and is in the queue again.
CrashInit ==
    /\ BatchesIdle
    /\ BatchIdle
    /\ CorrectionIdle
    /\ RomanIdle
    /\ BodyIdle
    /\ DownloadIdle
    /\ RuntimeIdle
    /\ ConcurrentIdle
    /\ status = [j \in Jobs |-> "pending"]
    /\ age = [j \in Jobs |-> NoAge]
    /\ error_message = [j \in Jobs |-> NoMsg]
    /\ WorkersIdle
    /\ RetryFailedIdle /\ RetryIdle /\ DiscoverIdle /\ ContinuousIdle
    /\ FlattenIdle /\ LoadIdle /\ ParseIdle /\ OcrIdle /\ RateLimiterIdle
    /\ StoreCallsIdle
    /\ x_version = [j \in Jobs |-> IF j = 1 THEN NoVersion ELSE EXTRACTION_VERSION - 1]
    /\ x_pdf = [j \in Jobs |-> FALSE]

CrashOthers ==
    UNCHANGED <<fvars, rvars, dvars, svars, tvars, lvars, pvars, ovars, rlvars, kvars,
                crvars,
                mvars,
                gvars,
                bvars,
                rpvars,
                avars,
                nvars,
                rqvars>>

\* process_jobs, step 1: the PDF is on the local disk when 'downloaded' is
\* written.
CrashDownloaded(w) ==
    /\ ProcDownloaded(w)
    /\ x_pdf' = [x_pdf EXCEPT ![CurrentJob(w)] = TRUE]
    /\ UNCHANGED x_version

\* process_jobs, step 3: 'loaded' is written with the extraction version.
CrashLoaded(w) ==
    /\ ProcLoaded(w)
    /\ x_version' = [x_version EXCEPT ![CurrentJob(w)] = EXTRACTION_VERSION]
    /\ UNCHANGED x_pdf

\* The worker dies.  After 'downloaded' the PDF is on its disk and perhaps
\* in storage (the upload follows the update): a later worker finds the
\* file or does not.
CrashDies(w, found) ==
    /\ WorkerCrash(w)
    /\ x_pdf' = IF wpc[w] = "load"
                THEN [x_pdf EXCEPT ![CurrentJob(w)] = found]
                ELSE x_pdf
    /\ UNCHANGED x_version

\* reprocess_jobs (not forced) on one job of its query: skipped when the PDF
\* is in neither place, else reloaded and written 'loaded' with the current
\* version, or 'failed'.
Reprocess(j, ok) ==
    /\ status[j] \in {"loaded", "parsed", "downloaded"}
    /\ x_version[j] # NoVersion /\ x_version[j] < EXTRACTION_VERSION
    /\ x_pdf[j]
    /\ IF ok
       THEN /\ update_status(j, "loaded", NoMsg)
            /\ x_version' = [x_version EXCEPT ![j] = EXTRACTION_VERSION]
       ELSE /\ update_status(j, "failed", MsgReprocess)
            /\ UNCHANGED x_version
    /\ UNCHANGED <<wpc, wbatch, widx, x_pdf>>

CrashNext ==
    \/ \E w \in Workers : ClaimBegin(w, LiveBatch) /\ UNCHANGED xcvars /\ CrashOthers
    \/ \E w \in Workers : ClaimCommit(w) /\ UNCHANGED xcvars /\ CrashOthers
    \/ \E w \in Workers : ClaimAbort(w) /\ UNCHANGED xcvars /\ CrashOthers
    \/ \E w \in Workers : CrashDownloaded(w) /\ CrashOthers
    \/ \E w \in Workers : CrashLoaded(w) /\ CrashOthers
    \/ \E w \in Workers, msg \in ProcMsgs : ProcFailed(w, msg) /\ UNCHANGED xcvars /\ CrashOthers
    \/ \E w \in Workers, found \in BOOLEAN : CrashDies(w, found) /\ CrashOthers
    \/ Tick /\ UNCHANGED xcvars /\ CrashOthers
    \/ \E j \in Jobs, ok \in BOOLEAN : Reprocess(j, ok) /\ CrashOthers

CrashWorkerStep(w) ==
    \/ ClaimCommit(w) /\ UNCHANGED xcvars /\ CrashOthers
    \/ CrashDownloaded(w) /\ CrashOthers
    \/ CrashLoaded(w) /\ CrashOthers
    \/ \E msg \in ProcMsgs : ProcFailed(w, msg) /\ UNCHANGED xcvars /\ CrashOthers

\* Workers keep running as in LiveSpec, and reprocess_jobs is run again and
\* again.
CrashSpec ==
    /\ CrashInit /\ [][CrashNext]_vars
    /\ WF_vars(Tick /\ UNCHANGED xcvars /\ CrashOthers)
    /\ \A w \in Workers : WF_vars(CrashWorkerStep(w))
    /\ \A j \in Jobs :
          SF_vars(\E w \in Workers :
                     ClaimBegin(w, LiveBatch) /\ j \in Range(wbatch'[w])
                     /\ UNCHANGED xcvars /\ CrashOthers)
    /\ \A j \in Jobs :
          SF_vars(\E w \in Workers :
                     ClaimCommit(w) /\ j \in Range(wbatch[w])
                     /\ UNCHANGED xcvars /\ CrashOthers)
    /\ \A j \in Jobs : WF_vars(\E ok \in BOOLEAN : Reprocess(j, ok) /\ CrashOthers)

\* A job in a status that is not final and that no running worker holds.
Abandoned(j) ==
    /\ status[j] \in {"crawling", "downloaded"}
    /\ \A w \in Workers : j \notin Held(w) /\ j \notin LockedBy(w)

\* C19: a job that a crashed worker left in crawling or downloaded does not
\* stay there for ever: it comes back to the pending pool, is taken up by a
\* worker again, or reaches loaded or failed.
C19_CrashRecovery == \A j \in Jobs : Abandoned(j) ~> ~Abandoned(j)

----------------------------------------------------------------------------
(***************************************************************************)
(* SpecStoreCalls: process_jobs carries one claimed job through its steps, *)
(* every store call and every other step succeeding or raising             *)
(***************************************************************************)
StoreCallsInit ==
    /\ BatchesIdle
    /\ BatchIdle
    /\ CorrectionIdle
    /\ RomanIdle
    /\ BodyIdle
    /\ DownloadIdle
    /\ RuntimeIdle
    /\ ConcurrentIdle
    /\ QueueInit /\ RetryFailedIdle /\ RetryIdle /\ DiscoverIdle /\ ContinuousIdle
    /\ FlattenIdle /\ LoadIdle /\ ParseIdle /\ OcrIdle /\ RateLimiterIdle /\ CrashIdle
    /\ k_pc = "start"
    /\ k_run_id \in BOOLEAN
    /\ k_cached \in BOOLEAN
    /\ k_status = "crawling"
    /\ k_cause = "none"
    /\ k_tries = 0
    /\ k_attempt = 0

StoreCallsOthers ==
    UNCHANGED <<qvars, fvars, rvars, dvars, svars, tvars, lvars, pvars, ovars, rlvars, xcvars,
                crvars,
                mvars,
                gvars,
                bvars,
                rpvars,
                avars,
                nvars,
                rqvars>>

\* The store calls process_jobs makes itself, `db.table(...).update(...)
\* .execute()`, and the status each writes.
DirectCalls == {"link_run", "pdf_url", "downloaded", "loaded"}

AfterCall(pc) ==
    CASE pc = "link_run" -> "fetch"
      [] pc = "pdf_url" -> "downloaded"
      [] pc = "downloaded" -> "load"
      [] pc = "loaded" -> "done"

\* A direct call is executed once: it is not passed to _retry.
DirectTries == 1

\* `try:` is entered for the job.
KStart ==
    /\ k_pc = "start"
    /\ k_pc' = IF k_run_id THEN "link_run" ELSE "fetch"
    /\ UNCHANGED <<k_run_id, k_cached, k_status, k_cause, k_tries, k_attempt>>

\* One of the direct store calls: it succeeds within its executions, or its
\* error goes to the except branch.
KStoreCall(ok) ==
    /\ k_pc \in DirectCalls
    /\ IF ok
       THEN /\ k_pc' = AfterCall(k_pc)
            /\ k_status' = IF k_pc \in {"downloaded", "loaded"} THEN k_pc ELSE k_status
            /\ UNCHANGED <<k_cause, k_tries>>
       ELSE /\ k_pc' = "except"
            /\ k_cause' = "store"
            /\ k_tries' = DirectTries
            /\ UNCHANGED k_status
    /\ UNCHANGED <<k_run_id, k_cached, k_attempt>>

\* The detail page is fetched, and the PDF downloaded unless it is cached.
KFetch(ok) ==
    /\ k_pc = "fetch"
    /\ IF ok
       THEN /\ k_pc' = IF k_cached THEN "downloaded" ELSE "pdf_url"
            /\ UNCHANGED k_cause
       ELSE /\ k_pc' = "except"
            /\ k_cause' = "http"
    /\ UNCHANGED <<k_run_id, k_cached, k_status, k_tries, k_attempt>>

\* The upload to storage (its failure is passed over) and _extract_and_load.
KLoad(ok) ==
    /\ k_pc = "load"
    /\ IF ok
       THEN /\ k_pc' = "loaded"
            /\ UNCHANGED k_cause
       ELSE /\ k_pc' = "except"
            /\ k_cause' = "load"
    /\ UNCHANGED <<k_run_id, k_cached, k_status, k_tries, k_attempt>>

\* The except branch: update_status(job_id, "failed", ...), which runs under
\* _retry; when its last attempt raises, the error leaves process_jobs.
KExcept(ok) ==
    /\ k_pc = "except"
    /\ k_attempt' = k_attempt + 1
    /\ IF ok
       THEN k_status' = "failed" /\ k_pc' = "done"
       ELSE /\ k_pc' = IF k_attempt + 1 = MAX_RETRIES THEN "raised" ELSE "except"
            /\ UNCHANGED k_status
    /\ UNCHANGED <<k_run_id, k_cached, k_cause, k_tries>>

SpecStoreCallsNext ==
    \/ KStart /\ StoreCallsOthers
    \/ \E ok \in BOOLEAN : KStoreCall(ok) /\ StoreCallsOthers
    \/ \E ok \in BOOLEAN : KFetch(ok) /\ StoreCallsOthers
    \/ \E ok \in BOOLEAN : KLoad(ok) /\ StoreCallsOthers
    \/ \E ok \in BOOLEAN : KExcept(ok) /\ StoreCallsOthers

SpecStoreCalls == StoreCallsInit /\ [][SpecStoreCallsNext]_vars

\* C20: a job that is failed because of a store error had the store call
\* tried MAX_RETRIES times.
C20_StoreCallsRetried ==
    (k_status = "failed" /\ k_cause = "store") => k_tries = MAX_RETRIES

----------------------------------------------------------------------------
(***************************************************************************)
(* SpecConcurrent: continuous workers whose claimed batch was empty each   *)
(* run reprocess_jobs on the same table                                    *)
(***************************************************************************)
\* Every job was loaded once, some by an older version of the extraction.
ConcurrentInit ==
    /\ BatchesIdle
    /\ BatchIdle
    /\ CorrectionIdle
    /\ RomanIdle
    /\ BodyIdle
    /\ DownloadIdle
    /\ RuntimeIdle
    /\ QueueInit /\ RetryFailedIdle /\ RetryIdle /\ DiscoverIdle /\ ContinuousIdle
    /\ FlattenIdle /\ LoadIdle /\ ParseIdle /\ OcrIdle /\ RateLimiterIdle
    /\ CrashIdle /\ StoreCallsIdle
    /\ cr_pc = [w \in Workers |-> "idle"]
    /\ cr_jobs = [w \in Workers |-> <<>>]
    /\ cr_status = [j \in Jobs |-> "loaded"]
    /\ cr_version \in [Jobs -> {EXTRACTION_VERSION - 1, EXTRACTION_VERSION}]
    /\ cr_nodes = [j \in Jobs |-> 1]
    /\ cr_chunks = [j \in Jobs |-> 1]

ConcurrentOthers ==
    UNCHANGED <<qvars, fvars, rvars, dvars, svars, tvars, lvars, pvars, ovars, rlvars, xcvars, kvars,
                mvars,
                gvars,
                bvars,
                rpvars,
                avars,
                nvars,
                rqvars>>

\* The rows of the query of reprocess_jobs, not forced: a plain select, which
\* takes no lock and writes nothing.
SelectedRows ==
    {j \in Jobs : /\ cr_status[j] \in {"loaded", "parsed", "downloaded"}
                  /\ cr_version[j] < EXTRACTION_VERSION}

\* reprocess_jobs starts: the query returns up to batch_size rows.
CRSelect(w) ==
    /\ cr_pc[w] = "idle"
    /\ \E b \in Orders(SelectedRows, Min(MaxBatch, Cardinality(SelectedRows))) :
          /\ b # <<>>
          /\ cr_jobs' = [cr_jobs EXCEPT ![w] = b]
    /\ cr_pc' = [cr_pc EXCEPT ![w] = "clean_chunks"]
    /\ UNCHANGED <<cr_status, cr_version, cr_nodes, cr_chunks>>

\* cleanup_work_data for the job at hand: the chunks of the work are deleted,
CRCleanChunks(w) ==
    /\ cr_pc[w] = "clean_chunks"
    /\ cr_chunks' = [cr_chunks EXCEPT ![Head(cr_jobs[w])] = 0]
    /\ cr_pc' = [cr_pc EXCEPT ![w] = "clean_nodes"]
    /\ UNCHANGED <<cr_jobs, cr_status, cr_version, cr_nodes>>

\* then its nodes.
CRCleanNodes(w) ==
    /\ cr_pc[w] = "clean_nodes"
    /\ cr_nodes' = [cr_nodes EXCEPT ![Head(cr_jobs[w])] = 0]
    /\ cr_pc' = [cr_pc EXCEPT ![w] = "nodes"]
    /\ UNCHANGED <<cr_jobs, cr_status, cr_version, cr_chunks>>

\* load_nodes_by_level inserts the tree.
CRInsertNodes(w) ==
    /\ cr_pc[w] = "nodes"
    /\ cr_nodes' = [cr_nodes EXCEPT ![Head(cr_jobs[w])] = @ + 1]
    /\ cr_pc' = [cr_pc EXCEPT ![w] = "chunks"]
    /\ UNCHANGED <<cr_jobs, cr_status, cr_version, cr_chunks>>

\* create_chunks inserts the chunks.
CRInsertChunks(w) ==
    /\ cr_pc[w] = "chunks"
    /\ cr_chunks' = [cr_chunks EXCEPT ![Head(cr_jobs[w])] = @ + 1]
    /\ cr_pc' = [cr_pc EXCEPT ![w] = "mark"]
    /\ UNCHANGED <<cr_jobs, cr_status, cr_version, cr_nodes>>

\* The job is written loaded with the current version (or failed when the
\* update raises), keyed on its id, and the loop goes to the next row.
CRMark(w, ok) ==
    /\ cr_pc[w] = "mark"
    /\ LET j == Head(cr_jobs[w]) IN
         IF ok
         THEN /\ cr_status' = [cr_status EXCEPT ![j] = "loaded"]
              /\ cr_version' = [cr_version EXCEPT ![j] = EXTRACTION_VERSION]
         ELSE /\ cr_status' = [cr_status EXCEPT ![j] = "failed"]
              /\ UNCHANGED cr_version
    /\ cr_jobs' = [cr_jobs EXCEPT ![w] = Tail(@)]
    /\ cr_pc' = [cr_pc EXCEPT ![w] = IF Len(cr_jobs[w]) > 1 THEN "clean_chunks" ELSE "idle"]
    /\ UNCHANGED <<cr_nodes, cr_chunks>>

SpecConcurrentNext ==
    \/ \E w \in Workers : CRSelect(w) /\ ConcurrentOthers
    \/ \E w \in Workers : CRCleanChunks(w) /\ ConcurrentOthers
    \/ \E w \in Workers : CRCleanNodes(w) /\ ConcurrentOthers
    \/ \E w \in Workers : CRInsertNodes(w) /\ ConcurrentOthers
    \/ \E w \in Workers : CRInsertChunks(w) /\ ConcurrentOthers
    \/ \E w \in Workers, ok \in BOOLEAN : CRMark(w, ok) /\ ConcurrentOthers

SpecConcurrent == ConcurrentInit /\ [][SpecConcurrentNext]_vars

\* The job a worker is reloading.
Reloading(w) == IF cr_pc[w] = "idle" THEN {} ELSE {Head(cr_jobs[w])}

\* C22: no two workers reload the same job at the same time, and no work
\* has two copies of its nodes or of its chunks.
C22_NoConcurrentReload ==
    /\ \A v, w \in Workers : v # w => Reloading(v) \cap Reloading(w) = {}
    /\ \A j \in Jobs : cr_nodes[j] <= 1 /\ cr_chunks[j] <= 1

----------------------------------------------------------------------------
(***************************************************************************)
(* SpecRuntime: process_jobs works through a claimed batch while time      *)
(* passes, max_runtime being short or long                                 *)
(***************************************************************************)
\* claim_pending_jobs has returned a batch: its rows are 'crawling' with
\* last_crawled_at = now(), start_time was just taken.
RuntimeInit ==
    /\ BatchesIdle
    /\ BatchIdle
    /\ CorrectionIdle
    /\ RomanIdle
    /\ BodyIdle
    /\ DownloadIdle
    /\ QueueInit /\ RetryFailedIdle /\ RetryIdle /\ DiscoverIdle /\ ContinuousIdle
    /\ FlattenIdle /\ LoadIdle /\ ParseIdle /\ OcrIdle /\ RateLimiterIdle
    /\ CrashIdle /\ StoreCallsIdle /\ ConcurrentIdle
    /\ m_batch \in UNION {Orders(Jobs, n) : n \in 1..MaxBatch}
    /\ m_pc = "check" /\ m_idx = 1
    /\ m_status = [j \in Jobs |-> IF j \in Range(m_batch) THEN "crawling" ELSE "pending"]
    /\ m_age = [j \in Jobs |-> IF j \in Range(m_batch) THEN 0 ELSE NoAge]
    /\ m_elapsed = 0
    /\ m_max \in {0, TickMinutes}
    /\ m_started = [j \in Jobs |-> NoAge]
    /\ m_stopped = FALSE /\ m_recovered = {}

RuntimeOthers ==
    UNCHANGED <<qvars, fvars, rvars, dvars, svars, tvars, lvars, pvars, ovars, rlvars, xcvars, kvars,
                crvars,
                gvars,
                bvars,
                rpvars,
                avars,
                nvars,
                rqvars>>

\* `time.time() - start_time > max_runtime`, without the limit check.
Exceeded_Mut(elapsed, max_runtime) == FALSE

\* `time.time() - start_time > max_runtime`.
Exceeded(elapsed, max_runtime) == elapsed > max_runtime

MJob == m_batch[m_idx]

\* The top of the for loop: past the limit the loop is left by `break` and
\* process_jobs returns; otherwise the job's iteration begins.
MCheck ==
    /\ m_pc = "check"
    /\ IF Exceeded(m_elapsed, m_max)
       THEN /\ m_pc' = "done"
            /\ m_stopped' = TRUE
            /\ UNCHANGED m_started
       ELSE /\ m_pc' = "download"
            /\ m_started' = [m_started EXCEPT ![MJob] = m_elapsed]
            /\ UNCHANGED m_stopped
    /\ UNCHANGED <<m_batch, m_idx, m_status, m_age, m_elapsed, m_max, m_recovered>>

\* `stats["processed"] += 1`: the loop goes to the next job, or ends.
MNextJob ==
    IF m_idx < Len(m_batch)
    THEN m_idx' = m_idx + 1 /\ m_pc' = "check"
    ELSE m_idx' = m_idx /\ m_pc' = "done"

\* The keyed update of the job's status; last_crawled_at is left alone by
\* every status but 'crawling'.
MUpdate(st) ==
    /\ m_status' = [m_status EXCEPT ![MJob] = st]
    /\ m_age' = [m_age EXCEPT ![MJob] = NoAge]

\* The PDF is at hand and the row is written 'downloaded'.
MDownloaded ==
    /\ m_pc = "download"
    /\ MUpdate("downloaded")
    /\ m_pc' = "load"
    /\ UNCHANGED <<m_batch, m_idx, m_elapsed, m_max, m_started, m_stopped, m_recovered>>

\* _extract_and_load succeeded and the row is written 'loaded'.
MLoaded ==
    /\ m_pc = "load"
    /\ MUpdate("loaded")
    /\ MNextJob
    /\ UNCHANGED <<m_batch, m_elapsed, m_max, m_started, m_stopped, m_recovered>>

\* The except branches: the row is written 'failed'.
MFailed ==
    /\ m_pc \in {"download", "load"}
    /\ MUpdate("failed")
    /\ MNextJob
    /\ UNCHANGED <<m_batch, m_elapsed, m_max, m_started, m_stopped, m_recovered>>

\* Time passes, inside a job's iteration or between two.
MTick ==
    /\ m_elapsed' = IF m_pc = "done" THEN m_elapsed ELSE Min(m_elapsed + TickMinutes, AgeSat)
    /\ m_age' = [j \in Jobs |->
                   IF m_age[j] = NoAge THEN NoAge ELSE Min(m_age[j] + TickMinutes, AgeSat)]
    /\ <<m_elapsed', m_age'>> # <<m_elapsed, m_age>>
    /\ UNCHANGED <<m_pc, m_batch, m_idx, m_status, m_max, m_started, m_stopped, m_recovered>>

\* claim_jobs, called by another worker, returns a row stuck in 'crawling'
\* for more than 15 minutes to the pending pool.
MRecover(j) ==
    /\ m_status[j] = "crawling"
    /\ m_age[j] # NoAge /\ m_age[j] > RECOVERY_MINUTES
    /\ m_status' = [m_status EXCEPT ![j] = "pending"]
    /\ m_age' = [m_age EXCEPT ![j] = NoAge]
    /\ m_recovered' = m_recovered \cup {j}
    /\ UNCHANGED <<m_pc, m_batch, m_idx, m_elapsed, m_max, m_started, m_stopped>>

SpecRuntimeNext ==
    \/ MCheck /\ RuntimeOthers
    \/ MDownloaded /\ RuntimeOthers
    \/ MLoaded /\ RuntimeOthers
    \/ MFailed /\ RuntimeOthers
    \/ MTick /\ RuntimeOthers
    \/ \E j \in Jobs : MRecover(j) /\ RuntimeOthers

SpecRuntime == RuntimeInit /\ [][SpecRuntimeNext]_vars

\* The jobs of the batch whose iteration began, and those it did not reach.
MStarted == {j \in Range(m_batch) : m_started[j] # NoAge}
MUnstarted == Range(m_batch) \ MStarted

----------------------------------------------------------------------------
(***************************************************************************)
(* SpecDownload: the download step of process_jobs for every local file,   *)
(* stored hash, resolved and stored URL, and every outcome of the requests *)
(***************************************************************************)
DownloadInit ==
    /\ BatchesIdle
    /\ BatchIdle
    /\ CorrectionIdle
    /\ RomanIdle
    /\ BodyIdle
    /\ QueueInit /\ RetryFailedIdle /\ RetryIdle /\ DiscoverIdle /\ ContinuousIdle
    /\ FlattenIdle /\ LoadIdle /\ ParseIdle /\ OcrIdle /\ RateLimiterIdle
    /\ CrashIdle /\ StoreCallsIdle /\ ConcurrentIdle /\ RuntimeIdle
    /\ g_pc = "start"
    /\ g_file \in LocalFiles
    /\ g_pdf_hash \in Hashes \cup {NULL}
    /\ g_real \in Urls \cup {NULL}
    /\ g_stored \in Urls \cup {NULL}
    /\ g_candidates = <<>> /\ g_tried = <<>> /\ g_errors = <<>>
    /\ g_result = NULL /\ g_resolved = FALSE /\ g_written = NULL
    /\ g_pdf_url = g_stored

DownloadOthers ==
    UNCHANGED <<qvars, fvars, rvars, dvars, svars, tvars, lvars, pvars, ovars, rlvars, xcvars, kvars,
                crvars, mvars,
                bvars,
                rpvars,
                avars,
                nvars,
                rqvars>>

\* `if pdf_path.exists() and pdf_path.stat().st_size >= 1000:` the local file
\* is used, whether its hash is the stored one or not (the two cases differ
\* by the line printed); `else:` _download_pdf is called.
GStart ==
    /\ g_pc = "start"
    /\ IF g_file.size = "ok"
       THEN g_pc' = "done" /\ g_result' = "reused" /\ g_resolved' = FALSE
       ELSE g_pc' = "resolve" /\ g_result' = NULL /\ g_resolved' = TRUE
    /\ UNCHANGED <<g_file, g_pdf_hash, g_real, g_stored, g_candidates, g_tried,
                   g_errors, g_written, g_pdf_url>>

\* `[url for url in [real_pdf_url, stored_pdf_url] if url]`, then
\* `list(dict.fromkeys(candidates))`.
Candidates(real, stored) ==
    LET c == SelectSeq(<<real, stored>>, LAMBDA u : u # NULL)
    IN IF Len(c) = 2 /\ c[1] = c[2] THEN <<c[1]>> ELSE c

\* _download_pdf up to its for loop: a detail page without a PDF link is
\* recorded in attempt_errors; without a candidate ValueError is raised and
\* the except branch of process_jobs marks the job failed.
GResolve ==
    /\ g_pc = "resolve"
    /\ g_candidates' = Candidates(g_real, g_stored)
    /\ g_errors' = IF g_real = NULL THEN <<"detail_page">> ELSE <<>>
    /\ IF g_candidates' = <<>>
       THEN g_pc' = "done" /\ g_result' = "failed"
       ELSE g_pc' = "attempt" /\ g_result' = NULL
    /\ UNCHANGED <<g_file, g_pdf_hash, g_real, g_stored, g_tried, g_resolved,
                   g_written, g_pdf_url>>

\* One iteration of `for attempt_url in candidates`. A response that passes
\* the three tests is written to dest and its URL is returned and stored as
\* pdf_url. An HTTP error status, a wrong content type and a short payload
\* are recorded and the loop continues (ValueError after the last
\* candidate). Any other error of client.get is not caught in _download_pdf:
\* it reaches the except branch of process_jobs and the job is failed.
GAttempt(outcome) ==
    /\ g_pc = "attempt"
    /\ LET url == g_candidates[Len(g_tried) + 1] IN
         /\ g_tried' = Append(g_tried, url)
         /\ CASE outcome = "ok" ->
                   /\ g_written' = url /\ g_pdf_url' = url
                   /\ g_result' = "downloaded" /\ g_pc' = "done"
                   /\ UNCHANGED g_errors
              [] outcome = "network" ->
                   /\ g_result' = "failed" /\ g_pc' = "done"
                   /\ UNCHANGED <<g_written, g_pdf_url, g_errors>>
              [] OTHER ->
                   /\ g_errors' = Append(g_errors, url)
                   /\ IF Len(g_tried') = Len(g_candidates)
                      THEN g_result' = "failed" /\ g_pc' = "done"
                      ELSE g_result' = NULL /\ g_pc' = "attempt"
                   /\ UNCHANGED <<g_written, g_pdf_url>>
    /\ UNCHANGED <<g_file, g_pdf_hash, g_real, g_stored, g_candidates, g_resolved>>

SpecDownloadNext ==
    \/ GStart /\ DownloadOthers
    \/ GResolve /\ DownloadOthers
    \/ \E outcome \in GetOutcomes : GAttempt(outcome) /\ DownloadOthers

SpecDownload == DownloadInit /\ [][SpecDownloadNext]_vars

\* C28: the local file is used without a download only if it exists and its
\* SHA-256 is the stored pdf_hash; without a file, or with a file of another
\* hash, the URL is resolved and the PDF downloaded again.
C28_CacheOnlyOnHashMatch ==
    g_pc = "done" =>
        /\ g_result = "reused" => (g_file # NoFile /\ g_file.hash = g_pdf_hash)
        /\ (g_file = NoFile \/ g_file.hash # g_pdf_hash) => g_resolved

\* s is the beginning of t.
IsPrefix(s, t) == Len(s) <= Len(t) /\ \A i \in 1..Len(s) : s[i] = t[i]

\* C29: the candidates are the distinct URLs of [resolved, stored] in that
\* order and are requested in that order; every candidate that failed is
\* recorded and followed by the next one; the first that succeeds is written
\* to disk and stored as pdf_url; the download fails only when every
\* candidate has failed.
C29_CandidateFallback ==
    g_resolved /\ g_pc \in {"attempt", "done"} =>
        /\ g_candidates = Candidates(g_real, g_stored)
        /\ IsPrefix(g_tried, g_candidates)
        /\ g_result = "downloaded" =>
              /\ g_tried # <<>>
              /\ g_written = g_tried[Len(g_tried)] /\ g_pdf_url = g_written
              /\ \A i \in 1..(Len(g_tried) - 1) : g_tried[i] \in Range(g_errors)
        /\ g_result = "failed" =>
              /\ g_tried = g_candidates
              /\ \A i \in 1..Len(g_tried) : g_tried[i] \in Range(g_errors)

----------------------------------------------------------------------------
(***************************************************************************)
(* SpecBody: parse_structure and _flatten_tree on the body of a law        *)
(***************************************************************************)
BodyInit ==
    /\ BatchesIdle
    /\ BatchIdle
    /\ CorrectionIdle
    /\ RomanIdle
    /\ QueueInit /\ RetryFailedIdle /\ RetryIdle /\ DiscoverIdle /\ ContinuousIdle
    /\ FlattenIdle /\ LoadIdle /\ ParseIdle /\ OcrIdle /\ RateLimiterIdle
    /\ CrashIdle /\ StoreCallsIdle /\ ConcurrentIdle /\ RuntimeIdle /\ DownloadIdle
    /\ b_text \in BodyTexts
    /\ b_nodes = <<>>

BodyOthers ==
    UNCHANGED <<qvars, fvars, rvars, dvars, svars, tvars, lvars, pvars, ovars, rlvars, xcvars, kvars,
                crvars, mvars, gvars,
                rpvars,
                avars,
                nvars,
                rqvars>>

\* The marker loop of parse_structure from marker i on, `bab` and `bagian`
\* being the markers of current_bab and current_bagian (0 for None): the
\* marker each marker is appended to, 0 standing for the root list.
RECURSIVE MarkerParents(_, _, _, _)
MarkerParents(text, i, bab, bagian) ==
    IF i > Len(text) THEN <<>>
    ELSE LET under == IF bagian # 0 THEN bagian ELSE bab
         IN CASE text[i].type \in {"bab", "aturan"} ->
                   <<0>> \o MarkerParents(text, i + 1, i, 0)
              [] text[i].type = "bagian" ->
                   <<bab>> \o MarkerParents(text, i + 1, bab, i)
              [] text[i].type = "paragraf" ->
                   <<under>> \o MarkerParents(text, i + 1, bab, i)
              [] OTHER ->
                   <<under>> \o MarkerParents(text, i + 1, bab, bagian)

\* _parse_ayat: the positions of the `(N)` lines that become children, a
\* number already seen being skipped.
AyatKept(ayat) == {k \in 1..Len(ayat) : \A h \in 1..(k - 1) : ayat[h] # ayat[k]}

\* `path_segment = f"{node_type}_{number}"`.
Segment(type, number) == <<type, number>>

\* The path of marker i: the segments along its chain of parents.
RECURSIVE MarkerPath(_, _, _)
MarkerPath(text, parents, i) ==
    IF i = 0 THEN <<>>
    ELSE MarkerPath(text, parents, parents[i])
         \o <<Segment(text[i].type, text[i].number)>>

\* The pieces of the text held by the content (and heading) of the node of
\* marker i: <<i, 0>> is what follows the marker line up to the first `(N)`
\* line, <<i, k>> what follows the k-th `(N)` line.  The content of a pasal
\* is the whole raw_content.
MarkerPieces(text, i) == {<<i, k>> : k \in 0..Len(text[i].ayat)}

\* The entries _flatten_tree gives for marker i: its node, then its ayat
\* children, whose content is the text after their `(N)`.
RECURSIVE AyatEntries(_, _, _, _)
AyatEntries(text, parents, i, k) ==
    IF k > Len(text[i].ayat) THEN <<>>
    ELSE (IF k \in AyatKept(text[i].ayat)
          THEN <<[type |-> "ayat", number |-> text[i].ayat[k], marker |-> 0,
                  under |-> i,
                  path |-> MarkerPath(text, parents, i)
                           \o <<Segment("ayat", text[i].ayat[k])>>,
                  pieces |-> {<<i, k>>}]>>
          ELSE <<>>)
         \o AyatEntries(text, parents, i, k + 1)

\* Every node is appended to the latest bab or to the latest bagian or
\* paragraf after it, so the walk of _flatten_tree meets the nodes in the
\* order of the text.
RECURSIVE BodyEntries(_, _, _)
BodyEntries(text, parents, i) ==
    IF i > Len(text) THEN <<>>
    ELSE <<[type |-> text[i].type, number |-> text[i].number, marker |-> i,
            under |-> parents[i],
            path |-> MarkerPath(text, parents, i),
            pieces |-> MarkerPieces(text, i)]>>
         \o AyatEntries(text, parents, i, 1)
         \o BodyEntries(text, parents, i + 1)

flatten_body(text) == BodyEntries(text, MarkerParents(text, 1, 0, 0), 1)

BodyParse ==
    /\ b_nodes = <<>>
    /\ b_nodes' = flatten_body(b_text)
    /\ UNCHANGED b_text
    /\ BodyOthers

SpecBody == BodyInit /\ [][BodyParse]_vars

\* C31: no two nodes of a parsed text get the same path.
C31_PathUnique ==
    \A a, c \in 1..Len(b_nodes) : a # c => b_nodes[a].path # b_nodes[c].path

\* C32: no piece of the text is held by two different nodes.
C32_NoTextTwice ==
    \A a, c \in 1..Len(b_nodes) :
        a # c => b_nodes[a].pieces \cap b_nodes[c].pieces = {}

\* The latest marker before i of one of the types, not before marker
\* `since`; 0 when there is none.
Latest(text, i, types, since) ==
    LET S == {h \in 1..(i - 1) : text[h].type \in types /\ h >= since}
    IN IF S = {} THEN 0 ELSE CHOOSE h \in S : \A g \in S : g <= h

\* C33: a bab or aturan is a root; a bagian is under the current bab, else a
\* root; a paragraf is under the current bagian (the latest since the
\* current bab), else the current bab, else a root; a pasal is under the
\* current bagian or paragraf, else the current bab, else a root.
C33_Nesting ==
    \A a \in 1..Len(b_nodes) :
        LET i == b_nodes[a].marker
            bab == Latest(b_text, i, {"bab", "aturan"}, 1)
            bagian == Latest(b_text, i, {"bagian"}, bab)
            bagpar == Latest(b_text, i, {"bagian", "paragraf"}, bab)
        IN i # 0 =>
             CASE b_nodes[a].type \in {"bab", "aturan"} -> b_nodes[a].under = 0
               [] b_nodes[a].type = "bagian" -> b_nodes[a].under = bab
               [] b_nodes[a].type = "paragraf" ->
                     b_nodes[a].under = (IF bagian # 0 THEN bagian ELSE bab)
               [] OTHER ->
                     b_nodes[a].under = (IF bagpar # 0 THEN bagpar ELSE bab)

----------------------------------------------------------------------------
(***************************************************************************)
(* SpecRoman: _fix_roman_pasals on every text of a few lines               *)
(***************************************************************************)
RomanInit ==
    /\ BatchesIdle
    /\ BatchIdle
    /\ CorrectionIdle
    /\ QueueInit /\ RetryFailedIdle /\ RetryIdle /\ DiscoverIdle /\ ContinuousIdle
    /\ FlattenIdle /\ LoadIdle /\ ParseIdle /\ OcrIdle /\ RateLimiterIdle
    /\ CrashIdle /\ StoreCallsIdle /\ ConcurrentIdle /\ RuntimeIdle /\ DownloadIdle
    /\ BodyIdle
    /\ rp_text \in RomanTexts
    /\ rp_out = <<>>

RomanOthers ==
    UNCHANGED <<qvars, fvars, rvars, dvars, svars, tvars, lvars, pvars, ovars, rlvars, xcvars, kvars,
                crvars, mvars, gvars, bvars,
                avars,
                nvars,
                rqvars>>

\* _is_amendment_law: `Perubahan Atas` within the first 2000 characters,
\* which hold the whole of a text of a few lines.
_is_amendment_law(text) == \E i \in 1..Len(text) : text[i].kind = "amend"

\* ATURAN_RE.search(text): the first line `ATURAN PERALIHAN` or
\* `ATURAN TAMBAHAN`, 0 when the text has none.
AturanMatch(text) ==
    LET S == {i \in 1..Len(text) : text[i].kind \in {"aturan_peralihan", "aturan_tambahan"}}
    IN IF S = {} THEN 0 ELSE Least(S)

\* _ROMAN_PASAL_RE.sub(_replacer, ..) on lines i..last.  A match is
\* `Pasal`, blanks, the numeral and `\s*$`: the `\s*` runs over the blanks
\* that end the line and over the empty lines that follow, up to the last
\* end of line it can reach.  With a numeral of _ROMAN_MAP the whole match is
\* replaced by `Pasal N` with one blank; else by itself.  The string given
\* to sub ends with the end of line `last`: when the match reaches it and
\* the text goes on (the string is the part before the ATURAN line), that
\* end of line is replaced too and `Pasal N` is written on one line with
\* what follows ("glued").
RECURSIVE SubRoman(_, _, _)
SubRoman(text, i, last) ==
    IF i > last THEN <<>>
    ELSE IF text[i].kind = "roman"
         THEN LET B == {j \in (i + 1)..last : \A h \in (i + 1)..j : text[h].kind = "blank"}
                  e == IF B = {} THEN i ELSE CHOOSE j \in B : \A h \in B : h <= j
              IN <<[kind |-> "arabic",
                    ws |-> IF e = last /\ last < Len(text) THEN "glued" ELSE "tight"]>>
                 \o SubRoman(text, e + 1, last)
         ELSE <<text[i]>> \o SubRoman(text, i + 1, last)

\* _fix_roman_pasals.
_fix_roman_pasals(text) ==
    IF _is_amendment_law(text) THEN text
    ELSE IF AturanMatch(text) # 0
         THEN SubRoman(text, 1, AturanMatch(text) - 1)
              \o SubSeq(text, AturanMatch(text), Len(text))
         ELSE SubRoman(text, 1, Len(text))

FixRoman ==
    /\ rp_out = <<>>
    /\ rp_out' = _fix_roman_pasals(rp_text)
    /\ UNCHANGED rp_text
    /\ RomanOthers

SpecRoman == RomanInit /\ [][FixRoman]_vars

\* The first `ATURAN PERALIHAN` line, 0 when the text has none.
FirstPeralihan(text) ==
    LET S == {i \in 1..Len(text) : text[i].kind = "aturan_peralihan"}
    IN IF S = {} THEN 0 ELSE Least(S)

\* C34: the result has the lines of the text, each unchanged but for the
\* numeral of the `Pasal I`..`Pasal XV` lines, which is Arabic where the
\* text is not an amendment law and the line is not after the first
\* `ATURAN PERALIHAN` line.
C34_RomanRescue ==
    rp_out # <<>> =>
        /\ Len(rp_out) = Len(rp_text)
        /\ \A i \in 1..Len(rp_text) :
              IF /\ rp_text[i].kind = "roman"
                 /\ ~_is_amendment_law(rp_text)
                 /\ (FirstPeralihan(rp_text) = 0 \/ i < FirstPeralihan(rp_text))
              THEN rp_out[i] = [kind |-> "arabic", ws |-> rp_text[i].ws]
              ELSE rp_out[i] = rp_text[i]

----------------------------------------------------------------------------
(***************************************************************************)
(* SpecCorrection: two correction workers poll the same suggestions; every *)
(* verdict of the verifier, every outcome of the calls of apply_revision   *)
(***************************************************************************)
CorrectionInit ==
    /\ BatchesIdle
    /\ BatchIdle
    /\ QueueInit /\ RetryFailedIdle /\ RetryIdle /\ DiscoverIdle /\ ContinuousIdle
    /\ FlattenIdle /\ LoadIdle /\ ParseIdle /\ OcrIdle /\ RateLimiterIdle
    /\ CrashIdle /\ StoreCallsIdle /\ ConcurrentIdle /\ RuntimeIdle /\ DownloadIdle
    /\ BodyIdle /\ RomanIdle
    /\ a_pc = [w \in Workers |-> "idle"]
    /\ a_batch = [w \in Workers |-> <<>>]
    /\ a_triggered = [s \in Suggestions |-> NULL]
    /\ a_status = [s \in Suggestions |-> "pending"]
    /\ a_verdict = [s \in Suggestions |-> NoVerdict]
    /\ a_node = [s \in Suggestions |-> "old"]
    /\ a_chunks = [s \in Suggestions |-> "old"]
    /\ a_rev = [s \in Suggestions |-> 0]
    /\ a_ret = [s \in Suggestions |-> NULL]
    /\ a_attempted = [s \in Suggestions |-> {}]
    /\ a_verifiers = [s \in Suggestions |-> {}]
    /\ a_appliers = [s \in Suggestions |-> {}]

CorrectionOthers ==
    UNCHANGED <<qvars, fvars, rvars, dvars, svars, tvars, lvars, pvars, ovars, rlvars, xcvars, kvars,
                crvars, mvars, gvars, bvars, rpvars,
                nvars,
                rqvars>>

\* The rows of the store and the history of the calls.
a_db == <<a_triggered, a_status, a_verdict, a_node, a_chunks, a_rev>>
a_hist == <<a_ret, a_attempted, a_verifiers, a_appliers>>

ASugg(w) == Head(a_batch[w])

\* process_suggestion returns; the loop of run_worker takes the next
\* suggestion of the batch.
ADone(w) ==
    /\ a_batch' = [a_batch EXCEPT ![w] = Tail(@)]
    /\ a_pc' = [a_pc EXCEPT ![w] = IF Len(a_batch[w]) > 1 THEN "claim" ELSE "idle"]

AGoto(w, pc) ==
    /\ a_pc' = [a_pc EXCEPT ![w] = pc]
    /\ UNCHANGED a_batch

\* fetch_pending_suggestions: a plain select of the pending suggestions
\* whose agent_triggered_at is null, oldest first.
AFetch(w) ==
    /\ a_pc[w] = "idle"
    /\ LET S == {s \in Suggestions : a_status[s] = "pending" /\ a_triggered[s] = NULL}
       IN /\ S # {}
          /\ a_batch' = [a_batch EXCEPT ![w] = CHOOSE b \in Orders(S, Cardinality(S)) : TRUE]
    /\ a_pc' = [a_pc EXCEPT ![w] = "claim"]
    /\ UNCHANGED <<a_db, a_hist>>

\* The claim update without its condition on agent_triggered_at.
ClaimHits_Mut(s) == TRUE

\* `.eq("id", suggestion_id).is_("agent_triggered_at", "null")`: the rows
\* the claim update writes, one statement of the store.
ClaimHits(s) == a_triggered[s] = NULL

\* Step A: the claim; `if not claim.data: return None`.
AClaim(w) ==
    /\ a_pc[w] = "claim"
    /\ a_attempted' = [a_attempted EXCEPT ![ASugg(w)] = @ \cup {w}]
    /\ IF ClaimHits(ASugg(w))
       THEN /\ a_triggered' = [a_triggered EXCEPT ![ASugg(w)] = w]
            /\ a_verifiers' = [a_verifiers EXCEPT ![ASugg(w)] = @ \cup {w}]
            /\ AGoto(w, "verify")
       ELSE /\ UNCHANGED <<a_triggered, a_verifiers>>
            /\ ADone(w)
    /\ UNCHANGED <<a_status, a_verdict, a_node, a_chunks, a_rev, a_ret, a_appliers>>

\* The test of step G with the threshold ignored.
AutoApply_Mut(v) == v.decision \in {"accept", "accept_with_corrections"}

\* `is_accept and meets_threshold`.
AutoApply(v) ==
    /\ v.decision \in {"accept", "accept_with_corrections"}
    /\ v.confidence >= CONFIDENCE_THRESHOLD

\* Steps 3, E and G: the verdict is stored on the suggestion, and
\* apply_revision is called on a confident acceptance.
AVerify(w, v) ==
    /\ a_pc[w] = "verify"
    /\ a_verdict' = [a_verdict EXCEPT ![ASugg(w)] = v]
    /\ IF AutoApply(v)
       THEN /\ a_appliers' = [a_appliers EXCEPT ![ASugg(w)] = @ \cup {w}]
            /\ AGoto(w, "rpc")
       ELSE /\ UNCHANGED a_appliers
            /\ ADone(w)
    /\ UNCHANGED <<a_triggered, a_status, a_node, a_chunks, a_rev, a_ret,
                   a_attempted, a_verifiers>>

\* apply_revision returns to process_suggestion: with a revision id the
\* status update follows, with None the suggestion is done.
AReturn(w, ret) ==
    /\ a_ret' = [a_ret EXCEPT ![ASugg(w)] = ret]
    /\ IF ret = "id" THEN AGoto(w, "status") ELSE ADone(w)
    /\ UNCHANGED <<a_attempted, a_verifiers, a_appliers>>

\* `sb.rpc("apply_revision", ..)`: the SQL function does its four writes in
\* one transaction and returns the revision id ("ok"), returns no data
\* ("none"), or the call raises and the manual steps are taken ("raise").
ARpc(w, outcome) ==
    /\ a_pc[w] = "rpc"
    /\ CASE outcome = "ok" ->
              /\ a_rev' = [a_rev EXCEPT ![ASugg(w)] = @ + 1]
              /\ a_node' = [a_node EXCEPT ![ASugg(w)] = "new"]
              /\ a_chunks' = [a_chunks EXCEPT ![ASugg(w)] = "new"]
              /\ a_status' = [a_status EXCEPT ![ASugg(w)] = "approved"]
              /\ AReturn(w, "id")
         [] outcome = "none" ->
              /\ UNCHANGED <<a_rev, a_node, a_chunks, a_status>>
              /\ AReturn(w, "none")
         [] OTHER ->
              /\ UNCHANGED <<a_rev, a_node, a_chunks, a_status>>
              /\ AGoto(w, "read")
              /\ UNCHANGED a_hist
    /\ UNCHANGED <<a_triggered, a_verdict>>

\* A step of _apply_revision_manual that raises: `except Exception: return
\* None`, whatever was written before.
AManualFails(w) ==
    /\ a_pc[w] \in {"read", "insert", "node", "chunks", "suggestion"}
    /\ AReturn(w, "none")
    /\ UNCHANGED a_db

\* 1. the node is read.
AManualRead(w) ==
    /\ a_pc[w] = "read"
    /\ AGoto(w, "insert")
    /\ UNCHANGED <<a_db, a_hist>>

\* 2. the revision is inserted.
AManualInsert(w) ==
    /\ a_pc[w] = "insert"
    /\ a_rev' = [a_rev EXCEPT ![ASugg(w)] = @ + 1]
    /\ AGoto(w, "node")
    /\ UNCHANGED <<a_triggered, a_status, a_verdict, a_node, a_chunks, a_hist>>

\* 3. document_nodes is updated.
AManualNode(w) ==
    /\ a_pc[w] = "node"
    /\ a_node' = [a_node EXCEPT ![ASugg(w)] = "new"]
    /\ AGoto(w, "chunks")
    /\ UNCHANGED <<a_triggered, a_status, a_verdict, a_chunks, a_rev, a_hist>>

\* 4. legal_chunks is updated.
AManualChunks(w) ==
    /\ a_pc[w] = "chunks"
    /\ a_chunks' = [a_chunks EXCEPT ![ASugg(w)] = "new"]
    /\ AGoto(w, "suggestion")
    /\ UNCHANGED <<a_triggered, a_status, a_verdict, a_node, a_rev, a_hist>>

\* 5. the suggestion is approved and the revision id returned.
AManualSuggestion(w) ==
    /\ a_pc[w] = "suggestion"
    /\ a_status' = [a_status EXCEPT ![ASugg(w)] = "approved"]
    /\ AReturn(w, "id")
    /\ UNCHANGED <<a_triggered, a_verdict, a_node, a_chunks, a_rev>>

\* `if revision_id:` the status is set to agent_approved inside
\* try/except.
AStatus(w, ok) ==
    /\ a_pc[w] = "status"
    /\ a_status' = IF ok THEN [a_status EXCEPT ![ASugg(w)] = "agent_approved"]
                   ELSE a_status
    /\ ADone(w)
    /\ UNCHANGED <<a_triggered, a_verdict, a_node, a_chunks, a_rev, a_hist>>

SpecCorrectionNext ==
    \/ \E w \in Workers : AFetch(w) /\ CorrectionOthers
    \/ \E w \in Workers : AClaim(w) /\ CorrectionOthers
    \/ \E w \in Workers, v \in Verdicts : AVerify(w, v) /\ CorrectionOthers
    \/ \E w \in Workers, outcome \in {"ok", "none", "raise"} : ARpc(w, outcome) /\ CorrectionOthers
    \/ \E w \in Workers : AManualFails(w) /\ CorrectionOthers
    \/ \E w \in Workers : AManualRead(w) /\ CorrectionOthers
    \/ \E w \in Workers : AManualInsert(w) /\ CorrectionOthers
    \/ \E w \in Workers : AManualNode(w) /\ CorrectionOthers
    \/ \E w \in Workers : AManualChunks(w) /\ CorrectionOthers
    \/ \E w \in Workers : AManualSuggestion(w) /\ CorrectionOthers
    \/ \E w \in Workers, ok \in BOOLEAN : AStatus(w, ok) /\ CorrectionOthers

SpecCorrection == CorrectionInit /\ [][SpecCorrectionNext]_vars

\* C35: once apply_revision has returned, a revision row exists only
\* together with the new node content, and when it returned None none of
\* its writes remains.
C35_AllOrNothing ==
    \A s \in Suggestions :
        a_ret[s] # NULL =>
            /\ a_rev[s] > 0 <=> a_node[s] = "new"
            /\ a_ret[s] = "none" =>
                  /\ a_rev[s] = 0 /\ a_node[s] = "old" /\ a_chunks[s] = "old"
                  /\ a_status[s] = "pending"

C37_ConfidentOnly ==
    \A s \in Suggestions :
        /\ a_appliers[s] # {} =>
              /\ a_verdict[s].decision \in {"accept", "accept_with_corrections"}
              /\ a_verdict[s].confidence >= CONFIDENCE_THRESHOLD
        /\ (/\ a_verdict[s] # NoVerdict
            /\ \/ a_verdict[s].decision \in {"reject", "error"}
               \/ a_verdict[s].confidence < CONFIDENCE_THRESHOLD) =>
              /\ a_appliers[s] = {}
              /\ a_node[s] = "old" /\ a_chunks[s] = "old" /\ a_rev[s] = 0
              /\ a_status[s] = "pending"

\* A suggestion accepted just under the threshold was stored and left
\* alone, while another was applied.
C37_Witness ==
    /\ a_verdict[1] = [decision |-> "accept", confidence |-> CONFIDENCE_THRESHOLD - 1]
    /\ a_node[1] = "old" /\ a_status[1] = "pending"
    /\ a_verdict[2] = [decision |-> "accept", confidence |-> CONFIDENCE_THRESHOLD]
    /\ a_node[2] = "new"
    /\ \A w \in Workers : a_pc[w] = "idle"

----------------------------------------------------------------------------
(***************************************************************************)
(* SpecBatch: cmd_process, cmd_full after its discovery, or one iteration  *)
(* of cmd_continuous from _create_run on, for every batch size, every      *)
(* number of jobs, every outcome of a job and of a call of the store       *)
(***************************************************************************)
BatchInit ==
    /\ BatchesIdle
    /\ QueueInit /\ RetryFailedIdle /\ RetryIdle /\ DiscoverIdle /\ ContinuousIdle
    /\ FlattenIdle /\ LoadIdle /\ ParseIdle /\ OcrIdle /\ RateLimiterIdle
    /\ CrashIdle /\ StoreCallsIdle /\ ConcurrentIdle /\ RuntimeIdle /\ DownloadIdle
    /\ BodyIdle /\ RomanIdle /\ CorrectionIdle
    /\ n_cmd \in {"process", "full", "continuous"}
    /\ n_size \in 1..MaxBatchJobs
    /\ n_avail \in 0..MaxBatchJobs
    /\ n_outdated \in 0..MaxBatchJobs
    /\ n_pc = "create"
    /\ n_jobs = 0
    /\ n_claimed = 0
    /\ n_idx = 0
    /\ n_stats = ZeroStats
    /\ n_counted = [j \in 1..MaxBatchJobs |-> 0]
    /\ n_ret = NoStats
    /\ n_rp_ret = NoStats
    /\ n_run = NoRun

BatchOthers ==
    UNCHANGED <<qvars, fvars, rvars, dvars, svars, tvars, lvars, pvars, ovars, rlvars, xcvars, kvars,
                crvars, mvars, gvars, bvars, rpvars, avars,
                rqvars>>

\* What the iteration was started with, and the batch process_jobs claimed.
n_args == <<n_cmd, n_size, n_avail, n_outdated>>

\* _create_run: the row is inserted with status running; an error of the
\* insert leaves the command before its try and no row exists.
NCreateRun(ok) ==
    /\ n_pc = "create"
    /\ n_run' = IF ok THEN [NoRun EXCEPT !.status = "running"] ELSE n_run
    /\ n_pc' = IF ~ok THEN "done"
               ELSE IF n_cmd = "full" THEN "discovered" ELSE "claim"
    /\ UNCHANGED <<n_args, n_claimed, n_jobs, n_idx, n_stats, n_counted, n_ret, n_rp_ret>>

\* cmd_full writes jobs_discovered to the row, inside its try.
NDiscovered(ok) ==
    /\ n_pc = "discovered"
    /\ n_pc' = IF ok THEN "claim" ELSE "except"
    /\ UNCHANGED <<n_args, n_claimed, n_jobs, n_idx, n_stats, n_counted, n_ret, n_rp_ret, n_run>>

\* process_jobs: claim_pending_jobs(limit=batch_size) hands out k jobs;
\* `if not jobs: return stats`.
NClaim(k, ok) ==
    /\ n_pc = "claim"
    /\ k <= Min(n_size, n_avail)
    /\ IF ~ok
       THEN /\ n_pc' = "except"
            /\ UNCHANGED <<n_jobs, n_claimed, n_idx, n_stats, n_ret>>
       ELSE /\ n_jobs' = k
            /\ n_claimed' = k
            /\ n_idx' = 1
            /\ n_stats' = ZeroStats
            /\ n_ret' = IF k = 0 THEN ZeroStats ELSE n_ret
            /\ n_pc' = IF k = 0 THEN "update" ELSE "loop"
    /\ UNCHANGED <<n_args, n_counted, n_rp_ret, n_run>>

\* Counters that leave `processed` alone for a skipped job.
Count_Mut(stats, outcome) ==
    [stats EXCEPT ![outcome] = @ + 1,
                  !.processed = IF outcome = "skipped" THEN @ ELSE @ + 1]

\* `stats[outcome] += 1` in the branch of the job and `stats["processed"]
\* += 1` at the end of its iteration.
Count(stats, outcome) ==
    [stats EXCEPT ![outcome] = @ + 1, !.processed = @ + 1]

\* One job of the for loop, in process_jobs or reprocess_jobs: it is
\* counted under its outcome, or update_status raises inside the except
\* branch and the error leaves the function.
NLoopJob(outcome) ==
    /\ n_idx <= n_jobs
    /\ IF outcome = "raise"
       THEN /\ n_pc' = "except"
            /\ UNCHANGED <<n_idx, n_stats, n_counted>>
       ELSE /\ n_stats' = Count(n_stats, outcome)
            /\ n_counted' = [n_counted EXCEPT ![n_idx] = @ + 1]
            /\ n_idx' = n_idx + 1
            /\ UNCHANGED n_pc
    /\ UNCHANGED <<n_args, n_claimed, n_jobs, n_ret, n_rp_ret, n_run>>

NJob(outcome) ==
    /\ n_pc = "loop"
    /\ NLoopJob(outcome)

\* process_jobs returns its stats: the loop is through, or the runtime
\* limit was reached at the top of the loop.
NReturn(limit_reached) ==
    /\ n_pc = "loop"
    /\ IF limit_reached THEN n_idx <= n_jobs ELSE n_idx > n_jobs
    /\ n_ret' = n_stats
    /\ n_pc' = "update"
    /\ UNCHANGED <<n_args, n_claimed, n_jobs, n_idx, n_stats, n_counted, n_rp_ret, n_run>>

\* _update_run(run_id, stats, "completed"): the update is inside
\* try/except, a failure is printed.  Only cmd_continuous goes on, to
\* reprocess_jobs when nothing was processed.
NUpdateRun(ok) ==
    /\ n_pc = "update"
    /\ n_run' = IF ok THEN [n_run EXCEPT !.status = "completed",
                                         !.processed = n_ret.processed,
                                         !.succeeded = n_ret.succeeded,
                                         !.failed = n_ret.failed]
                ELSE n_run
    /\ n_pc' = IF n_cmd = "continuous" /\ n_ret.processed = 0
               THEN "rp_select" ELSE "done"
    /\ UNCHANGED <<n_args, n_claimed, n_jobs, n_idx, n_stats, n_counted, n_ret, n_rp_ret>>

\* reprocess_jobs(batch_size): the select with `.limit(batch_size)`;
\* `if not jobs: return stats`.
NSelect(ok) ==
    /\ n_pc = "rp_select"
    /\ IF ~ok
       THEN /\ n_pc' = "except"
            /\ UNCHANGED <<n_jobs, n_idx, n_stats, n_counted, n_rp_ret>>
       ELSE /\ n_jobs' = Min(n_size, n_outdated)
            /\ n_idx' = 1
            /\ n_stats' = ZeroStats
            /\ n_counted' = [j \in 1..MaxBatchJobs |-> 0]
            /\ n_rp_ret' = IF n_outdated = 0 THEN ZeroStats ELSE n_rp_ret
            /\ n_pc' = IF n_outdated = 0 THEN "done" ELSE "rp_loop"
    /\ UNCHANGED <<n_args, n_claimed, n_ret, n_run>>

NReprocessJob(outcome) ==
    /\ n_pc = "rp_loop"
    /\ NLoopJob(outcome)

\* reprocess_jobs returns its stats after the loop.
NReprocessReturn ==
    /\ n_pc = "rp_loop"
    /\ n_idx > n_jobs
    /\ n_rp_ret' = n_stats
    /\ n_pc' = "done"
    /\ UNCHANGED <<n_args, n_claimed, n_jobs, n_idx, n_stats, n_counted, n_ret, n_run>>

\* `except Exception as e: _update_run(run_id, EMPTY_STATS, "failed",
\* str(e))`, then the re-raise or the sleep.
NExcept(ok) ==
    /\ n_pc = "except"
    /\ n_run' = IF ok THEN [NoRun EXCEPT !.status = "failed", !.error = TRUE]
                ELSE n_run
    /\ n_pc' = "done"
    /\ UNCHANGED <<n_args, n_claimed, n_jobs, n_idx, n_stats, n_counted, n_ret, n_rp_ret>>

SpecBatchNext ==
    \/ \E ok \in BOOLEAN : NCreateRun(ok) /\ BatchOthers
    \/ \E ok \in BOOLEAN : NDiscovered(ok) /\ BatchOthers
    \/ \E k \in 0..MaxBatchJobs, ok \in BOOLEAN : NClaim(k, ok) /\ BatchOthers
    \/ \E outcome \in {"succeeded", "failed", "raise"} : NJob(outcome) /\ BatchOthers
    \/ \E limit_reached \in BOOLEAN : NReturn(limit_reached) /\ BatchOthers
    \/ \E ok \in BOOLEAN : NUpdateRun(ok) /\ BatchOthers
    \/ \E ok \in BOOLEAN : NSelect(ok) /\ BatchOthers
    \/ \E outcome \in {"succeeded", "failed", "skipped", "raise"} :
          NReprocessJob(outcome) /\ BatchOthers
    \/ NReprocessReturn /\ BatchOthers
    \/ \E ok \in BOOLEAN : NExcept(ok) /\ BatchOthers

SpecBatch == BatchInit /\ [][SpecBatchNext]_vars

\* C38: what process_jobs returns has processed = succeeded + failed, at
\* most the number of jobs claimed; what reprocess_jobs returns has
\* processed = succeeded + failed + skipped, at most batch_size; no job of
\* a batch is counted twice.
C38_BatchCounters ==
    /\ n_ret # NoStats =>
          /\ n_ret.processed = n_ret.succeeded + n_ret.failed
          /\ n_ret.skipped = 0
          /\ n_ret.processed <= n_claimed
    /\ n_rp_ret # NoStats =>
          /\ n_rp_ret.processed
                = n_rp_ret.succeeded + n_rp_ret.failed + n_rp_ret.skipped
          /\ n_rp_ret.processed <= n_size
    /\ \A j \in 1..MaxBatchJobs : n_counted[j] <= 1

\* process_jobs stopped at its runtime limit before the first job, and
\* reprocess_jobs returned after a batch with a skipped, a failed and a
\* reprocessed job.
C38_Witness ==
    /\ n_ret = ZeroStats /\ n_claimed > 0
    /\ n_rp_ret # NoStats
    /\ n_rp_ret.skipped = 1 /\ n_rp_ret.failed = 1 /\ n_rp_ret.succeeded = 1

\* C39: after the iteration the run record it created is completed with
\* the counters process_jobs returned, or failed with the error; it is
\* not left running.
C39_RunFinalised ==
    (n_pc = "done" /\ n_run # NoRun) =>
        \/ /\ n_run.status = "completed"
           /\ n_run.processed = n_ret.processed
           /\ n_run.succeeded = n_ret.succeeded
           /\ n_run.failed = n_ret.failed
        \/ n_run.status = "failed" /\ n_run.error

----------------------------------------------------------------------------
(***************************************************************************)
(* SpecBatches: cmd_continuous calls reprocess_jobs(batch_size) again and  *)
(* again while no job is pending; LiveSpecBatches adds that the loop keeps *)
(* running                                                                 *)
(***************************************************************************)
\* skips of one job that are told apart
MaxSkips == 2

BatchesInit ==
    /\ QueueInit /\ RetryFailedIdle /\ RetryIdle /\ DiscoverIdle /\ ContinuousIdle
    /\ FlattenIdle /\ LoadIdle /\ ParseIdle /\ OcrIdle /\ RateLimiterIdle
    /\ CrashIdle /\ StoreCallsIdle /\ ConcurrentIdle /\ RuntimeIdle /\ DownloadIdle
    /\ BodyIdle /\ RomanIdle /\ CorrectionIdle /\ BatchIdle
    /\ rq_size \in 1..(MaxReprocessJobs - 1)
    /\ rq_pdf \in [ReprocessJobs -> BOOLEAN]
    /\ rq_outdated \in [ReprocessJobs -> BOOLEAN]
    /\ rq_status = [j \in ReprocessJobs |-> "loaded"]
    /\ rq_pc = "select"
    /\ rq_batch = {}
    /\ rq_tried = {}
    /\ rq_skips = [j \in ReprocessJobs |-> 0]
    /\ rq_empty = FALSE

BatchesOthers ==
    UNCHANGED <<qvars, fvars, rvars, dvars, svars, tvars, lvars, pvars, ovars, rlvars, xcvars, kvars,
                crvars, mvars, gvars, bvars, rpvars, avars, nvars>>

\* `.in_("status", ["loaded", "parsed", "downloaded"]).lt(
\* "extraction_version", EXTRACTION_VERSION)`: the rows the select matches.
Matching ==
    {j \in ReprocessJobs : rq_status[j] = "loaded" /\ rq_outdated[j]}

\* `query.limit(batch_size).execute()`: the select has no order, the store
\* returns any batch_size of the matching rows.
RqSelect(S) ==
    /\ rq_pc = "select"
    /\ S \subseteq Matching
    /\ Cardinality(S) = Min(rq_size, Cardinality(Matching))
    /\ rq_batch' = S
    /\ rq_empty' = (rq_empty \/ S = {})
    /\ rq_pc' = IF S = {} THEN "select" ELSE "loop"
    /\ UNCHANGED <<rq_size, rq_pdf, rq_outdated, rq_status, rq_tried, rq_skips>>

\* One job of the loop: without a PDF, locally and in storage, it is
\* skipped and its row stays as it is; otherwise it is re-extracted and
\* marked loaded with the current version, or failed.
RqJob(j, ok) ==
    /\ rq_pc = "loop"
    /\ j \in rq_batch
    /\ rq_batch' = rq_batch \ {j}
    /\ rq_pc' = IF rq_batch = {j} THEN "select" ELSE "loop"
    /\ IF ~rq_pdf[j]
       THEN /\ rq_skips' = [rq_skips EXCEPT ![j] = Min(@ + 1, MaxSkips)]
            /\ UNCHANGED <<rq_outdated, rq_status, rq_tried>>
       ELSE /\ rq_tried' = rq_tried \cup {j}
            /\ rq_outdated' = IF ok THEN [rq_outdated EXCEPT ![j] = FALSE]
                              ELSE rq_outdated
            /\ rq_status' = IF ok THEN rq_status
                            ELSE [rq_status EXCEPT ![j] = "failed"]
            /\ UNCHANGED rq_skips
    /\ UNCHANGED <<rq_size, rq_pdf, rq_empty>>

SpecBatchesNext ==
    \/ \E S \in SUBSET ReprocessJobs : RqSelect(S) /\ BatchesOthers
    \/ \E j \in ReprocessJobs, ok \in BOOLEAN : RqJob(j, ok) /\ BatchesOthers

SpecBatches == BatchesInit /\ [][SpecBatchesNext]_vars

\* The loop of cmd_continuous goes on to its next call.
LiveSpecBatches == SpecBatches /\ WF_vars(SpecBatchesNext)

\* The outdated jobs whose PDF is available.
Reprocessable ==
    {j \in ReprocessJobs : rq_pdf[j] /\ rq_outdated[j] /\ rq_status[j] = "loaded"}

\* C40: repeated reprocess batches eventually have reprocessed every
\* outdated job whose PDF is available, and a batch then comes back empty.
C40_ReprocessProgress ==
    <>(Reprocessable = {} /\ rq_empty)

====
